---- MODULE Spec2Model ----
(***************************************************************************)
(* Token lifecycle and refresh coordination of the Express backend         *)
(* (server/controllers/user.js, the User model, the UsedRefreshToken       *)
(* ledger) and of the NextAuth single-flight wrapper (client/src/lib/      *)
(* auth.js).                                                               *)
(*                                                                         *)
(* Every HTTP handler is an async function: each action below is one       *)
(* stretch of a handler between two awaits that touch shared state (the    *)
(* MongoDB documents, the wall clock), so the interleavings of the model   *)
(* are those the Node event loop and several server replicas can produce.  *)
(***************************************************************************)
EXTENDS Integers, FiniteSets, Sequences, TLC

\* ------------------------------------------------------------------ bounds
\* Number of external events of one behaviour: arrivals of HTTP requests
\* and advances of the wall clock.
MaxEvents == 4
\* The same for clients that present arbitrary input (SpecAnyInput).
MaxInputEvents == 3

\* Number of concurrent calls of the single-flight wrapper for one refresh key.
MaxCallers == 2

\* ------------------------------------------------------- program constants
\* REFRESH_TOKEN_EXPIRY '7d', in seconds (jsonwebtoken counts in seconds).
REFRESH_TOKEN_EXPIRY == 604800
\* ACCESS_TOKEN_EXPIRY '15m', in seconds.
ACCESS_TOKEN_EXPIRY == 900
\* createdAt.expires '10s': the grace window of the used-token ledger.
GRACE_SECONDS == 10

\* WAIT_TIMEOUT_MS: followers wait up to this long.
WAIT_TIMEOUT_MS == 9000
\* POLL_INTERVAL_MS: poll cadence for followers.
POLL_INTERVAL_MS == 200

\* src/client/src/lib/auth.js
EARLY_REFRESH_WINDOW_MS == 30000

RESULT_TTL_CAP_MS == 20000

LOCK_TTL_MS == 8000

RESULT_TTL_FLOOR_MS == 2000

\* The clock advances by one second, by the grace window or by the refresh
\* token lifetime: the steps that make same-second minting, ledger expiry and
\* token expiry happen.
TickSteps == {1, GRACE_SECONDS, REFRESH_TOKEN_EXPIRY}

Reqs == 1..MaxEvents

\* ------------------------------------------------------------------ tokens
\* jwt.sign(payload, secret, {expiresIn}) is a deterministic function of the
\* payload, the secret and the second it is called in (iat): a token is the
\* triple (secret it is signed with, principal, iat).  Two tokens minted for
\* one principal with one secret within one second are the same string.
Users == {"u1"}

Tok(typ, uid, iat) == [typ |-> typ, uid |-> uid, iat |-> iat]

\* No token: an unset refreshToken field, a missing body field.
Null == Tok("null", "-", 0)
\* A string that carries no valid signature of either secret.
Forged == Tok("forged", "u1", 0)
\* A validly signed refresh token whose principal has no User document.
GhostToken == Tok("refresh", "ghost", 0)

\* userSchema.methods.generateRefreshToken
generateRefreshToken(uid, t) == Tok("refresh", uid, t)

\* userSchema.methods.generateAccessToken
generateAccessToken(uid, t) == Tok("access", uid, t)

Lifetime(typ) == IF typ = "refresh" THEN REFRESH_TOKEN_EXPIRY ELSE ACCESS_TOKEN_EXPIRY

\* A verification for which a signature made with either secret is good.
SignedWith_EitherSecret(tok, secret) == tok.typ \in {"access", "refresh"}

\* The signature check of jwt.verify: ACCESS_TOKEN_SECRET and
\* REFRESH_TOKEN_SECRET are two environment variables, taken to hold
\* different secrets; the payloads carry no claim that tells the two kinds
\* of token apart.
SignedWith(tok, secret) == tok.typ = secret

\* A verification that checks the signature and not the expiry.
jwtVerify_IgnoreExpiration(tok, secret, t) ==
    IF tok.typ # secret THEN "JsonWebTokenError" ELSE "ok"

\* jwt.verify(token, secret): the signature is checked before the expiry;
\* a token is expired from the second iat + expiresIn on.
jwtVerify(tok, secret, t) ==
    IF ~SignedWith(tok, secret) THEN "JsonWebTokenError"
    ELSE IF t >= tok.iat + Lifetime(secret) THEN "TokenExpiredError"
    ELSE "ok"

\* --------------------------------------------------------------- responses
Response(status, msg, access, refresh) ==
    [status |-> status, msg |-> msg, accessToken |-> access, refreshToken |-> refresh]

NoResponse == Response(0, "", Null, Null)

\* ------------------------------------------------------------------- state
VARIABLES
    now,               \* wall clock, seconds
    events,            \* external events so far: request arrivals, clock advances
    userRefreshToken,  \* User.refreshToken of each principal (Null: unset)
    usedTokens,        \* the UsedRefreshToken collection
    req,               \* per request: handler, position, locals
    res,               \* per request: the response sent
    seen,              \* per request: what the handler observed (history)
    issuedRefresh,     \* refresh tokens handed out in 200 responses
    issuedAccess,      \* access tokens handed out in 200 responses
    superseded,        \* refresh tokens that were stored and then replaced (history)
    redis,             \* the Redis substrate: "up", "down" (every command fails), "flaky"
    lockVal,           \* value of the refresh lock key (0: absent)
    cached,            \* value of the refresh result key (NoResult: absent)
    call,              \* per caller of distributedSingleFlightRefresh: position, locals
    backendCalls,      \* how many times refreshFn has run
    inflight,          \* refreshPromisesByKey of one process: the call whose promise
                       \* the entry of the refresh key holds (0: no entry)
    awaits,            \* per caller of getOrCreateRefreshPromise: the call whose
                       \* promise it was handed (0: none)
    settled,           \* the calls whose promise in the map has settled
    input,             \* arguments and clock reading of a computation under study
    output             \* what the computation produced (<<>>: not run yet)

serverVars == <<now, events, userRefreshToken, usedTokens, req, res, seen,
                issuedRefresh, issuedAccess, superseded>>

processVars == <<inflight, awaits, settled>>

pureVars == <<input, output>>

clientVars == <<redis, lockVal, cached, call, backendCalls, inflight, awaits, settled,
                input, output>>

vars == <<now, events, userRefreshToken, usedTokens, req, res, seen,
          issuedRefresh, issuedAccess, superseded,
          redis, lockVal, cached, call, backendCalls, inflight, awaits, settled,
          input, output>>

\* ------------------------------------------------ NextAuth session tokens
\* A session token (the JWT of NextAuth) is an object: a function from its
\* keys to strings.  Reading a key the object does not have yields undefined.
Undefined == "undefined"

Get(t, k) == IF k \in DOMAIN t THEN t[k] ELSE Undefined

\* {...t, k: v}
Set(t, k, v) == [x \in DOMAIN t \cup {k} |-> IF x = k THEN v ELSE t[x]]

\* JSON.parse(JSON.stringify(t)): stringify leaves out the keys whose value
\* is undefined.
JSONStringify(t) == [k \in {f \in DOMAIN t : t[f] # Undefined} |-> t[k]]

\* No object: a key Redis does not hold, a local not assigned yet.
NoValue == [none |-> "none"]

\* The token the jwt callback passes to the wrapper: its access token is due
\* for refresh.
SessionToken == [accessToken |-> "a0", refreshToken |-> "r0",
                 accessTokenExpires |-> "due",
                 error |-> Undefined, refreshError |-> Undefined]

\* Tokens of the backend's 200 to the request of caller n.
AccessNames == <<"a1", "a2", "a3", "a4">>
RefreshNames == <<"r1", "r2", "r3", "r4">>

Callers == 1..MaxCallers

IdleCall == [pc |-> "idle", waited |-> 0, answer |-> NoValue, attempt |-> NoValue,
             ret |-> NoValue, refreshes |-> 0, polled |-> FALSE,
             lockTried |-> FALSE, redisOk |-> FALSE, foreignLock |-> FALSE]

\* One refresh key, nothing in Redis, no call of the wrapper under way.
ClientInit ==
    /\ lockVal = 0
    /\ cached = NoValue
    /\ call = [c \in Callers |-> IdleCall]
    /\ backendCalls = 0
    /\ inflight = 0
    /\ awaits = [c \in Callers |-> 0]
    /\ settled = {}

\* ---------------------------------------------------------------- requests
IdleReq == [op |-> "none", pc |-> "idle", token |-> Null, uid |-> "-",
            user |-> Null, accessToken |-> Null, refreshToken |-> Null]

Stored(uid) == IF uid \in Users THEN userRefreshToken[uid] ELSE Null

\* History of a request: whether the token it presented was past its signed
\* expiry when it arrived, the stored pointer at its arrival and at its
\* findById/findOne, the outcome of its verification, the path it took,
\* whether the ledger held its token at its lookup, whether its save() wrote
\* the pointer, the logins that had been answered 200 when a refresh or a logout arrived.
NotSeen == [pastExpiry |-> FALSE, atArrival |-> Null, atLoad |-> Null, verify |-> "-", path |-> "-",
            inLedger |-> FALSE, wrote |-> FALSE, after |-> {}]

\* The logins that have been answered 200.
LoggedIn == {q \in DOMAIN req : /\ req[q].op = "login"
                                /\ req[q].pc = "done"
                                /\ res[q].status = 200}

\* The database right after one of three histories of the principal:
\* registered and never logged in; logged in during second 0; logged in
\* during second 0 and refreshed during second 1 (the happy path: the login's
\* token is in the ledger with the access token of the rotation).
Histories == {"registered", "loggedIn", "rotated"}

ServerInit(h) ==
    /\ events = 0
    /\ now = IF h = "rotated" THEN 1 ELSE 0
    /\ userRefreshToken = [u \in Users |->
          CASE h = "registered" -> Null
            [] h = "loggedIn" -> generateRefreshToken(u, 0)
            [] h = "rotated" -> generateRefreshToken(u, 1)]
    /\ usedTokens = IF h = "rotated"
                    THEN {[token |-> generateRefreshToken(u, 0), userId |-> u,
                           accessToken |-> generateAccessToken(u, 1),
                           createdAt |-> 1] : u \in Users}
                    ELSE {}
    /\ issuedRefresh = {generateRefreshToken(u, t) : u \in Users,
                          t \in CASE h = "registered" -> {}
                                  [] h = "loggedIn" -> {0}
                                  [] h = "rotated" -> {0, 1}}
    /\ issuedAccess = {generateAccessToken(u, t) : u \in Users,
                         t \in CASE h = "registered" -> {}
                                 [] h = "loggedIn" -> {0}
                                 [] h = "rotated" -> {0, 1}}
    /\ superseded = IF h = "rotated"
                    THEN {generateRefreshToken(u, 0) : u \in Users} ELSE {}
    /\ req = <<>>
    /\ res = <<>>
    /\ seen = <<>>

\* The backend's behaviours: no call of the wrapper is under way.
Init ==
    /\ \E h \in Histories : ServerInit(h)
    /\ redis = "up"
    /\ ClientInit
    /\ input = <<>>
    /\ output = <<>>

\* The wrapper's calls for the session of a logged-in principal; Redis
\* answers every command, fails every command, or fails some.
InitClient ==
    /\ ServerInit("loggedIn")
    /\ redis \in {"up", "down", "flaky"}
    /\ ClientInit
    /\ input = <<>>
    /\ output = <<>>

\* The requests that have arrived, in the order of their arrival.
Started == DOMAIN req

\* A request arrives: it is the next one.
CanStart(r) ==
    /\ events < MaxEvents
    /\ r = Len(req) + 1

\* The entry of request r set to v; the entry is added when r arrives.
Put(f, r, v) == IF r \in DOMAIN f THEN [f EXCEPT ![r] = v] ELSE Append(f, v)

\* res.status(...).json(...): the handler ends; tokens of a 200 reach the client.
Respond(r, response) ==
    /\ res' = Put(res, r, response)
    /\ issuedRefresh' = IF response.status = 200 /\ response.refreshToken # Null
                        THEN issuedRefresh \cup {response.refreshToken}
                        ELSE issuedRefresh
    /\ issuedAccess' = IF response.status = 200 /\ response.accessToken # Null
                       THEN issuedAccess \cup {response.accessToken}
                       ELSE issuedAccess

\* A write of the User.refreshToken field.
StorePointer(uid, value) ==
    /\ userRefreshToken' = [userRefreshToken EXCEPT ![uid] = value]
    /\ superseded' = IF userRefreshToken[uid] # Null /\ userRefreshToken[uid] # value
                     THEN superseded \cup {userRefreshToken[uid]}
                     ELSE superseded

\* ------------------------------------------------------------ environment
Tick(d) ==
    /\ events < MaxEvents
    /\ now' = now + d
    /\ events' = events + 1
    /\ UNCHANGED <<userRefreshToken, usedTokens, req, res, seen,
                   issuedRefresh, issuedAccess, superseded>>
    /\ UNCHANGED clientVars

\* MongoDB's TTL monitor deletes a UsedRefreshToken document some time after
\* createdAt + 10s.
ExpireUsedToken(rec) ==
    /\ rec \in usedTokens
    /\ now >= rec.createdAt + GRACE_SECONDS
    /\ usedTokens' = usedTokens \ {rec}
    /\ UNCHANGED <<now, events, userRefreshToken, req, res, seen,
                   issuedRefresh, issuedAccess, superseded>>
    /\ UNCHANGED clientVars

\* ------------------------------------------------- POST /api/users/refresh-token
\* What a client can put in req.body.refreshToken: nothing, a refresh token it
\* was handed, a token signed with the access secret, a token of a deleted
\* principal, a string with a bad signature.
RefreshInputs ==
    issuedRefresh \cup {generateAccessToken(u, 0) : u \in Users} \cup {Null, Forged, GhostToken}

\* refreshAccessToken, up to the first await: the missing-token check and
\* jwt.verify with the catch block's answers.
RefreshVerify(r, tok) ==
    /\ CanStart(r)
    /\ tok \in RefreshInputs
    /\ LET v == IF tok = Null THEN "missing" ELSE jwtVerify(tok, "refresh", now)
           started == [IdleReq EXCEPT !.op = "refresh", !.token = tok, !.uid = tok.uid]
       IN /\ seen' = Put(seen, r, [NotSeen EXCEPT !.pastExpiry = (now - tok.iat >= Lifetime(tok.typ)),
                                                  !.atArrival = Stored(tok.uid),
                                                  !.verify = v,
                                                  !.after = LoggedIn])
          /\ CASE v = "missing" ->
                    /\ req' = Put(req, r, [started EXCEPT !.pc = "done"])
                    /\ Respond(r, Response(401, "Unauthorized: No refresh token provided.", Null, Null))
               [] v = "TokenExpiredError" ->
                    /\ req' = Put(req, r, [started EXCEPT !.pc = "done"])
                    /\ Respond(r, Response(403, "Forbidden: Refresh token expired.", Null, Null))
               [] v = "JsonWebTokenError" ->
                    /\ req' = Put(req, r, [started EXCEPT !.pc = "done"])
                    /\ Respond(r, Response(403, "Forbidden: Malformed refresh token.", Null, Null))
               [] OTHER ->
                    /\ req' = Put(req, r, [started EXCEPT !.pc = "findUser"])
                    /\ res' = Put(res, r, NoResponse)
                    /\ UNCHANGED <<issuedRefresh, issuedAccess>>
    /\ events' = events + 1
    /\ UNCHANGED <<now, userRefreshToken, usedTokens, superseded>>
    /\ UNCHANGED clientVars

\* User.findById(decoded._id).select('+refreshToken'), the not-found answer
\* and the comparison that chooses the happy path or the grace path.
RefreshFindUser(r) ==
    /\ req[r].op = "refresh"
    /\ req[r].pc = "findUser"
    /\ seen' = [seen EXCEPT ![r] = [@ EXCEPT !.atLoad = Stored(req[r].uid)]]
    /\ IF req[r].uid \notin Users
       THEN /\ req' = [req EXCEPT ![r] = [@ EXCEPT !.pc = "done"]]
            /\ Respond(r, Response(403, "Forbidden: User not found.", Null, Null))
       ELSE /\ req' = [req EXCEPT ![r] = [@ EXCEPT
                          !.user = userRefreshToken[req[r].uid],
                          !.pc = IF userRefreshToken[req[r].uid] = req[r].token
                                 THEN "generate" ELSE "grace"]]
            /\ UNCHANGED <<res, issuedRefresh, issuedAccess>>
    /\ UNCHANGED <<now, events, userRefreshToken, usedTokens, superseded>>
    /\ UNCHANGED clientVars

\* generateAccessAndRefereshTokens up to this.save(): both tokens are signed
\* in the current second.
GenerateTokens(r) ==
    /\ req[r].pc = "generate"
    /\ req' = [req EXCEPT ![r] = [@ EXCEPT
                  !.accessToken = generateAccessToken(req[r].uid, now),
                  !.refreshToken = generateRefreshToken(req[r].uid, now),
                  !.pc = "save"]]
    /\ UNCHANGED <<now, events, userRefreshToken, usedTokens, res, seen,
                   issuedRefresh, issuedAccess, superseded>>
    /\ UNCHANGED clientVars

\* this.refreshToken = refreshToken; await this.save().  Document.save()
\* sends the paths that differ from the loaded document and nothing else:
\* the write is keyed by _id only, and there is none when the new token is
\* the string that was loaded.
SaveWrites(r) == req[r].refreshToken # req[r].user

SaveUser(r) ==
    /\ req[r].pc = "save"
    /\ IF SaveWrites(r)
       THEN StorePointer(req[r].uid, req[r].refreshToken)
       ELSE UNCHANGED <<userRefreshToken, superseded>>
    /\ seen' = [seen EXCEPT ![r] = [@ EXCEPT !.wrote = SaveWrites(r)]]
    /\ IF req[r].op = "login"
       THEN /\ req' = [req EXCEPT ![r] = [@ EXCEPT !.user = req[r].refreshToken, !.pc = "done"]]
            /\ Respond(r, Response(200, "Login successful.",
                                   req[r].accessToken, req[r].refreshToken))
       ELSE /\ req' = [req EXCEPT ![r] = [@ EXCEPT !.user = req[r].refreshToken, !.pc = "record"]]
            /\ UNCHANGED <<res, issuedRefresh, issuedAccess>>
    /\ UNCHANGED <<now, events, usedTokens>>
    /\ UNCHANGED clientVars

\* A happy path that ends in the catch block's 500 after both writes.
HappyAnswer_InternalError(r) == Response(500, "Internal server error.", Null, Null)

\* The 200 of the happy path: the pair minted by this request.
HappyAnswer(r) ==
    Response(200, "Access token refreshed.", req[r].accessToken, req[r].refreshToken)

\* UsedRefreshToken.create({token, userId, accessToken}) and the 200 of the
\* happy path.
RefreshRecordUsed(r) ==
    /\ req[r].op = "refresh"
    /\ req[r].pc = "record"
    /\ usedTokens' = usedTokens \cup
          {[token |-> req[r].token, userId |-> req[r].uid,
            accessToken |-> req[r].accessToken, createdAt |-> now]}
    /\ req' = [req EXCEPT ![r] = [@ EXCEPT !.pc = "done"]]
    /\ seen' = [seen EXCEPT ![r] = [@ EXCEPT !.path = "happy"]]
    /\ Respond(r, HappyAnswer(r))
    /\ UNCHANGED <<now, events, userRefreshToken, superseded>>
    /\ UNCHANGED clientVars

\* A lookup keyed by the principal instead of the token.
GraceMatches_ByUser(tok) == {rec \in usedTokens : rec.userId = tok.uid}

\* UsedRefreshToken.findOne({token}): any one of the matching documents.
GraceMatches(tok) == {rec \in usedTokens : rec.token = tok}

\* A grace answer that hands the presented token back.
GraceAnswer_PresentedToken(r, rec) ==
    Response(200, "Access token refreshed (grace period).", rec.accessToken, req[r].token)

\* The 200 of the grace path: the ledger's access token and user.refreshToken
\* as loaded by findById.
GraceAnswer(r, rec) ==
    Response(200, "Access token refreshed (grace period).", rec.accessToken, req[r].user)

\* The grace-period path and the failure path.
RefreshGrace(r) ==
    /\ req[r].op = "refresh"
    /\ req[r].pc = "grace"
    /\ req' = [req EXCEPT ![r] = [@ EXCEPT !.pc = "done"]]
    /\ LET held == \E rec \in usedTokens : rec.token = req[r].token
       IN IF GraceMatches(req[r].token) # {}
          THEN \E rec \in GraceMatches(req[r].token) :
                 /\ seen' = [seen EXCEPT ![r] = [@ EXCEPT !.path = "grace", !.inLedger = held]]
                 /\ Respond(r, GraceAnswer(r, rec))
          ELSE /\ seen' = [seen EXCEPT ![r] = [@ EXCEPT !.path = "failure", !.inLedger = held]]
               /\ Respond(r, Response(403, "Forbidden: Invalid refresh token.", Null, Null))
    /\ UNCHANGED <<now, events, userRefreshToken, usedTokens, superseded>>
    /\ UNCHANGED clientVars

\* ------------------------------------------------------- POST /api/users/login
\* What the body of a login can be: fields missing, an identifier no User
\* document has, a known identifier with a wrong password, valid credentials.
LoginInputs == {"missing", "unknown", "wrongPassword", "valid"}

\* loginUser up to generateAccessAndRefereshTokens: the field check,
\* User.findOne(...).select('+password_hash +refreshToken') and
\* isPasswordCorrect.
LoginFindUser(r, uid, cred) ==
    /\ CanStart(r)
    /\ uid \in Users
    /\ cred \in LoginInputs
    /\ LET started == [IdleReq EXCEPT !.op = "login", !.uid = uid]
       IN CASE cred = "missing" ->
                 /\ req' = Put(req, r, [started EXCEPT !.pc = "done"])
                 /\ Respond(r, Response(400, "Please provide username/email and password.", Null, Null))
            [] cred = "unknown" ->
                 /\ req' = Put(req, r, [started EXCEPT !.pc = "done"])
                 /\ Respond(r, Response(404, "Invalid credentials.", Null, Null))
            [] cred = "wrongPassword" ->
                 /\ req' = Put(req, r, [started EXCEPT !.pc = "done"])
                 /\ Respond(r, Response(401, "Invalid credentials.", Null, Null))
            [] OTHER ->
                 /\ req' = Put(req, r, [started EXCEPT
                               !.user = userRefreshToken[uid], !.pc = "generate"])
                 /\ res' = Put(res, r, NoResponse)
                 /\ UNCHANGED <<issuedRefresh, issuedAccess>>
    /\ seen' = Put(seen, r, [NotSeen EXCEPT !.atArrival = userRefreshToken[uid],
                                           !.atLoad = userRefreshToken[uid],
                                           !.verify = cred])
    /\ events' = events + 1
    /\ UNCHANGED <<now, userRefreshToken, usedTokens, superseded>>
    /\ UNCHANGED clientVars

\* ------------------------------------------------------ POST /api/users/logout
\* What the Authorization header can carry: nothing, an access token or a
\* refresh token the client was handed, a string with a bad signature.
LogoutInputs == issuedAccess \cup issuedRefresh \cup {Null, Forged}

\* A logout that reports an error when there is no session to end.
LogoutAnswer_RequireSession(uid) ==
    IF Stored(uid) = Null
    THEN Response(500, "Error logging out user.", Null, Null)
    ELSE Response(200, "User logged out successfully.", Null, Null)

\* res.status(200).json({message: 'User logged out successfully.'})
LogoutAnswer(uid) == Response(200, "User logged out successfully.", Null, Null)

\* User.updateOne({_id: userId}, {$unset: {refreshToken: ""}})
UnsetRefreshToken(uid) ==
    IF uid \in Users
    THEN StorePointer(uid, Null)
    ELSE UNCHANGED <<userRefreshToken, superseded>>

\* The authenticate middleware followed by logoutUser.  authenticate sets
\* req.user to the claims of a verified access token, which always carry _id,
\* so logoutUser takes its first branch.
Logout(r, bearer) ==
    /\ CanStart(r)
    /\ bearer \in LogoutInputs
    /\ LET v == IF bearer = Null THEN "missing" ELSE jwtVerify(bearer, "access", now)
           started == [IdleReq EXCEPT !.op = "logout", !.token = bearer,
                                      !.uid = bearer.uid, !.pc = "done"]
       IN /\ req' = Put(req, r, started)
          /\ seen' = Put(seen, r, [NotSeen EXCEPT !.pastExpiry = (now - bearer.iat >= Lifetime(bearer.typ)),
                                                  !.atArrival = Stored(bearer.uid),
                                                  !.verify = v,
                                                  !.after = LoggedIn])
          /\ CASE v = "missing" ->
                    /\ Respond(r, Response(401, "Unauthorized: No token provided or malformed header.", Null, Null))
                    /\ UNCHANGED <<userRefreshToken, superseded>>
               [] v = "TokenExpiredError" ->
                    /\ Respond(r, Response(401, "Unauthorized: Token has expired.", Null, Null))
                    /\ UNCHANGED <<userRefreshToken, superseded>>
               [] v = "JsonWebTokenError" ->
                    /\ Respond(r, Response(401, "Unauthorized: Invalid token.", Null, Null))
                    /\ UNCHANGED <<userRefreshToken, superseded>>
               [] OTHER ->
                    /\ UnsetRefreshToken(bearer.uid)
                    /\ Respond(r, LogoutAnswer(bearer.uid))
    /\ events' = events + 1
    /\ UNCHANGED <<now, usedTokens>>
    /\ UNCHANGED clientVars

\* ------------------------------------------- client: refreshAccessToken
\* What fetch(REFRESH_PATH) can come back with: a status, and for a 200
\* whether the body carries accessToken and refreshToken.  Status "0" stands
\* for a fetch that throws (network error, timeout).
BackendAnswers ==
    {[status |-> st, access |-> FALSE, refresh |-> FALSE] : st \in {"401", "403", "500", "0"}}
    \cup {[status |-> "200", access |-> TRUE, refresh |-> rf] : rf \in BOOLEAN}
    \cup {[status |-> "200", access |-> FALSE, refresh |-> FALSE]}

BackendSucceeds(ans) == ans.status = "200" /\ ans.access

\* An error token that drops the access token on every failure.
ErrorToken_ClearsAccess(token, status) ==
    Set(Set(Set(token, "error", "RefreshAccessTokenError"), "refreshError", status),
        "accessToken", Undefined)

ErrorToken(token, status) ==
    Set(Set(token, "error", "RefreshAccessTokenError"), "refreshError", status)

\* refreshAccessToken(token), the refreshFn of the jwt callback, for the
\* backend's answer to caller n.  It never throws.
refreshAccessToken(token, ans, n) ==
    IF ans.status = "0" THEN ErrorToken(token, "0")
    ELSE IF ans.status # "200"
    THEN IF ans.status \in {"401", "403"}
         THEN Set(Set(ErrorToken(token, ans.status), "accessToken", Undefined),
                  "accessTokenExpires", "0")
         ELSE ErrorToken(token, ans.status)
    ELSE IF ~ans.access THEN ErrorToken(token, "200")
    ELSE Set(Set(Set(Set(Set(token,
             "accessToken", AccessNames[n]),
             "accessTokenExpires", "fresh"),
             "refreshToken", IF ans.refresh THEN RefreshNames[n]
                             ELSE Get(token, "refreshToken")),
             "error", Undefined),
             "refreshError", Undefined)

\* --------------------------------- client: distributedSingleFlightRefresh
\* A Redis command of a call: it resolves, or it rejects (connection down,
\* enableOfflineQueue false).
RedisOutcomes == CASE redis = "up" -> {TRUE} [] redis = "down" -> {FALSE} [] OTHER -> BOOLEAN

\* The call with the outcome of its command on record.
Counted(c, ok) == [call[c] EXCEPT !.redisOk = @ \/ ok]

\* getRedis() hands back the shared ioredis client (the constructor does not
\* wait for the connection); the keys are computed.
StartCall(c) ==
    /\ call[c].pc = "idle"
    /\ \A d \in Callers : d < c => call[d].pc # "idle"
    /\ call' = [call EXCEPT ![c] = [@ EXCEPT !.pc = "get"]]
    /\ UNCHANGED <<redis, lockVal, cached, backendCalls>>
    /\ UNCHANGED serverVars
    /\ UNCHANGED pureVars
    /\ UNCHANGED processVars

\* A first read that treats a failure as a miss and waits for a leader.
AfterQuickGet_WaitOnFailure(ok, hit) ==
    IF ~ok THEN "poll" ELSE IF hit THEN "done" ELSE "lock"

\* Where the call goes after redis.get(rKey) of step 1: local refresh when
\* the command failed, return on a hit, lock acquisition on a miss.
AfterQuickGet(ok, hit) ==
    IF ~ok THEN "local" ELSE IF hit THEN "done" ELSE "lock"

\* A first read that never sees a result.
Present_Never(cachedStr) == FALSE

\* if (cachedStr): redis.get answers null for a key that is absent or
\* expired.
Present(cachedStr) == cachedStr # NoValue

\* 1) Quick path: fresh result.
QuickGet(c, ok) ==
    /\ call[c].pc = "get"
    /\ ok \in RedisOutcomes
    /\ LET hit == Present(cached)
           nxt == AfterQuickGet(ok, hit)
       IN call' = [call EXCEPT ![c] = [Counted(c, ok) EXCEPT
                      !.pc = nxt,
                      !.ret = IF nxt = "done" THEN cached ELSE @]]
    /\ UNCHANGED <<redis, lockVal, cached, backendCalls>>
    /\ UNCHANGED serverVars
    /\ UNCHANGED pureVars
    /\ UNCHANGED processVars

\* The catch blocks of steps 1 and 2: return await refreshFn(token).
LocalRefresh(c, ans) ==
    /\ call[c].pc = "local"
    /\ ans \in BackendAnswers
    /\ backendCalls' = backendCalls + 1
    /\ LET refreshed == refreshAccessToken(SessionToken, ans, c)
       IN call' = [call EXCEPT ![c] = [@ EXCEPT
                      !.pc = "done", !.answer = ans, !.attempt = refreshed,
                      !.ret = refreshed, !.refreshes = @ + 1]]
    /\ UNCHANGED <<redis, lockVal, cached>>
    /\ UNCHANGED serverVars
    /\ UNCHANGED pureVars
    /\ UNCHANGED processVars

\* A SET without NX: it stores the value whatever the key holds.
NXAllows_Always(key) == TRUE

\* The NX option of SET: the value is stored, and "OK" returned, only when
\* the key is absent (0).
NXAllows(key) == key = 0

\* 2) redis.set(lKey, lockId, "PX", LOCK_TTL_MS, "NX"); the lock id of a call
\* is the number of its caller.
AcquireLock(c, ok) ==
    /\ call[c].pc = "lock"
    /\ ok \in RedisOutcomes
    /\ IF ok /\ NXAllows(lockVal)
       THEN lockVal' = c
       ELSE UNCHANGED lockVal
    /\ call' = [call EXCEPT ![c] = [Counted(c, ok) EXCEPT
                   !.lockTried = TRUE,
                   !.pc = IF ~ok THEN "local"
                          ELSE IF NXAllows(lockVal) THEN "leader" ELSE "poll"]]
    /\ UNCHANGED <<redis, cached, backendCalls>>
    /\ UNCHANGED serverVars
    /\ UNCHANGED pureVars
    /\ UNCHANGED processVars

\* Leader: const refreshed = await refreshFn(token), under the keep-alive
\* interval.
LeaderRefresh(c, ans) ==
    /\ call[c].pc = "leader"
    /\ ans \in BackendAnswers
    /\ backendCalls' = backendCalls + 1
    /\ call' = [call EXCEPT ![c] = [@ EXCEPT
                   !.pc = "publish", !.answer = ans,
                   !.attempt = refreshAccessToken(SessionToken, ans, c),
                   !.refreshes = @ + 1]]
    /\ UNCHANGED <<redis, lockVal, cached>>
    /\ UNCHANGED serverVars
    /\ UNCHANGED pureVars
    /\ UNCHANGED processVars

\* Leader: redis.set(rKey, JSON.stringify(refreshed), "PX", resultTtlMs),
\* whatever refreshed is.
PublishResult(c, ok) ==
    /\ call[c].pc = "publish"
    /\ ok \in RedisOutcomes
    /\ cached' = IF ok THEN JSONStringify(call[c].attempt) ELSE cached
    /\ call' = [call EXCEPT ![c] = [Counted(c, ok) EXCEPT !.pc = "unlock"]]
    /\ UNCHANGED <<redis, lockVal, backendCalls>>
    /\ UNCHANGED serverVars
    /\ UNCHANGED pureVars
    /\ UNCHANGED processVars

\* An unlock that deletes the key whatever it holds.
UNLOCK_LUA_BlindDelete(key, arg) == 0

\* UNLOCK_LUA: if redis.call("get", KEYS[1]) == ARGV[1] then del KEYS[1];
\* the value of the key afterwards (0: absent).
UNLOCK_LUA(key, arg) == IF key = arg THEN 0 ELSE key

\* Leader, finally: clearInterval(keepAlive); redis.eval(UNLOCK_LUA, 1, lKey,
\* lockId) deletes the key when it still holds this call's lock id.
Unlock(c, ok) ==
    /\ call[c].pc = "unlock"
    /\ ok \in RedisOutcomes
    /\ lockVal' = IF ok THEN UNLOCK_LUA(lockVal, c) ELSE lockVal
    /\ call' = [call EXCEPT ![c] = [Counted(c, ok) EXCEPT
                   !.pc = "done", !.ret = call[c].attempt,
                   !.foreignLock = ok /\ lockVal \notin {0, c}]]
    /\ UNCHANGED <<redis, cached, backendCalls>>
    /\ UNCHANGED serverVars
    /\ UNCHANGED pureVars
    /\ UNCHANGED processVars

\* A turn of the loop that takes no time.
AfterSleep_NoSleep(waited) == waited

\* await sleep(POLL_INTERVAL_MS): Date.now() - start has grown by one polling
\* interval when the loop condition is evaluated again.
AfterSleep(waited) == waited + 1

\* A follower that does not look at what its poll read.
PollHit_Ignored(ok, cachedStr) == FALSE

\* try { cachedStr = await redis.get(rKey); if (cachedStr) return ... }
\* catch { }: the poll answered and the key holds a result.
PollHit(ok, cachedStr) == ok /\ cachedStr # NoValue

\* 3) Follower: one turn of the polling loop, POLL_INTERVAL_MS long.
PollOnce(c, ok) ==
    /\ call[c].pc = "poll"
    /\ call[c].waited * POLL_INTERVAL_MS < WAIT_TIMEOUT_MS
    /\ ok \in RedisOutcomes
    /\ call' = [call EXCEPT ![c] = [Counted(c, ok) EXCEPT
                   !.polled = TRUE,
                   !.waited = IF PollHit(ok, cached) THEN @ ELSE AfterSleep(@),
                   !.pc = IF PollHit(ok, cached) THEN "done" ELSE "poll",
                   !.ret = IF PollHit(ok, cached) THEN cached ELSE @]]
    /\ UNCHANGED <<redis, lockVal, cached, backendCalls>>
    /\ UNCHANGED serverVars
    /\ UNCHANGED pureVars
    /\ UNCHANGED processVars

\* 4) Timeout: const attempt = await refreshFn(token).
FollowerRefresh(c, ans) ==
    /\ call[c].pc = "poll"
    /\ call[c].waited * POLL_INTERVAL_MS >= WAIT_TIMEOUT_MS
    /\ ans \in BackendAnswers
    /\ backendCalls' = backendCalls + 1
    /\ LET attempt == refreshAccessToken(SessionToken, ans, c)
           failed == Get(attempt, "error") = "RefreshAccessTokenError"
       IN call' = [call EXCEPT ![c] = [@ EXCEPT
                      !.answer = ans, !.attempt = attempt, !.refreshes = @ + 1,
                      !.pc = IF failed THEN "recheck" ELSE "done",
                      !.ret = IF failed THEN @ ELSE attempt]]
    /\ UNCHANGED <<redis, lockVal, cached>>
    /\ UNCHANGED serverVars
    /\ UNCHANGED pureVars
    /\ UNCHANGED processVars

\* 4) The second look at the cache after a failed attempt.
FollowerRecheck(c, ok) ==
    /\ call[c].pc = "recheck"
    /\ ok \in RedisOutcomes
    /\ call' = [call EXCEPT ![c] = [Counted(c, ok) EXCEPT
                   !.pc = "done",
                   !.ret = IF ok /\ cached # NoValue THEN cached ELSE call[c].attempt]]
    /\ UNCHANGED <<redis, lockVal, cached, backendCalls>>
    /\ UNCHANGED serverVars
    /\ UNCHANGED pureVars
    /\ UNCHANGED processVars

\* An interval that goes on renewing the lease after its process is gone.
IntervalRuns_AfterCrash(pc) == pc # "done"

\* The keep-alive interval lives in the leader's process: it runs from
\* setInterval until clearInterval in the finally block, and not beyond the
\* end of the process.
IntervalRuns(pc) == pc \notin {"done", "crashed"}

\* A leader without a keep-alive interval.
KeptAlive_NoInterval == FALSE

\* keepAlive = setInterval(() => redis.pexpire(lKey, LOCK_TTL_MS), LOCK_TTL_MS / 2),
\* cleared in the finally block: while the holder of the lock has not
\* returned and Redis answers every command, the lease is renewed before it
\* runs out.
KeptAlive == redis = "up" /\ IntervalRuns(call[lockVal].pc)

\* Redis drops the lock key when its PX lease runs out.
LeaseExpire ==
    /\ lockVal # 0
    /\ ~KeptAlive
    /\ lockVal' = 0
    /\ UNCHANGED <<redis, cached, call, backendCalls>>
    /\ UNCHANGED serverVars
    /\ UNCHANGED pureVars
    /\ UNCHANGED processVars

\* The process of a leader ends between the acquisition of the lock and the
\* unlock of the finally block: nothing of the call runs any more.
Crash(c) ==
    /\ call[c].pc \in {"leader", "publish", "unlock"}
    /\ call' = [call EXCEPT ![c] = [@ EXCEPT !.pc = "crashed"]]
    /\ UNCHANGED <<redis, lockVal, cached, backendCalls>>
    /\ UNCHANGED serverVars
    /\ UNCHANGED pureVars
    /\ UNCHANGED processVars

\* Redis drops the result key when its PX time runs out.
ResultExpire ==
    /\ cached # NoValue
    /\ cached' = NoValue
    /\ UNCHANGED <<redis, lockVal, call, backendCalls>>
    /\ UNCHANGED serverVars
    /\ UNCHANGED pureVars
    /\ UNCHANGED processVars

\* ------------------------------------- client: getOrCreateRefreshPromise
\* A map that is never consulted.
MapHas_Never == FALSE

\* refreshPromisesByKey.has(key), for the one refresh key of the session.
MapHas == inflight # 0

\* getOrCreateRefreshPromise(token, refreshFn) as called by the jwt callback
\* of one process.  With an entry in the map the caller is handed its
\* promise.  Without one the async arrow function runs up to the first await
\* of distributedSingleFlightRefresh, which includes getRedis(): it returns
\* the shared client, or throws and the promise is rejected; the promise is
\* stored in the map.
GetOrCreate(c, got) ==
    /\ call[c].pc = "idle"
    /\ \A d \in Callers : d < c => call[d].pc # "idle"
    /\ IF MapHas
       THEN /\ awaits' = [awaits EXCEPT ![c] = inflight]
            /\ call' = [call EXCEPT ![c] = [@ EXCEPT !.pc = "joined"]]
            /\ UNCHANGED inflight
       ELSE /\ awaits' = [awaits EXCEPT ![c] = c]
            /\ inflight' = c
            /\ call' = [call EXCEPT ![c] = [@ EXCEPT
                           !.pc = IF got THEN "get" ELSE "rejected"]]
    /\ UNCHANGED <<redis, lockVal, cached, backendCalls, settled>>
    /\ UNCHANGED serverVars
    /\ UNCHANGED pureVars

\* A delete that leaves the entry in the map.
MapDelete_KeepsEntry(entry) == entry

\* refreshPromisesByKey.delete(key): the entry of the key afterwards (0: none).
MapDelete(entry) == 0

\* .finally(() => { refreshPromisesByKey.delete(key); }): runs once the
\* operation has returned or thrown; the promise in the map settles after it.
DeleteEntry(c) ==
    /\ awaits[c] = c
    /\ call[c].pc \in {"done", "rejected"}
    /\ c \notin settled
    /\ inflight' = MapDelete(inflight)
    /\ settled' = settled \cup {c}
    /\ UNCHANGED <<redis, lockVal, cached, call, backendCalls, awaits>>
    /\ UNCHANGED serverVars
    /\ UNCHANGED pureVars

\* A caller that was handed the promise of another call receives what that
\* promise settled with.
ReceiveResult(c) ==
    /\ call[c].pc = "joined"
    /\ awaits[c] \in settled
    /\ call' = [call EXCEPT ![c] = [@ EXCEPT !.pc = call[awaits[c]].pc,
                                             !.ret = call[awaits[c]].ret]]
    /\ UNCHANGED <<redis, lockVal, cached, backendCalls>>
    /\ UNCHANGED processVars
    /\ UNCHANGED serverVars
    /\ UNCHANGED pureVars

\* callbacks.jwt, lines 371-377: what the callback returns for a caller
\* whose promise has settled.
jwtReturn(c) ==
    IF call[c].pc = "rejected"
    THEN Set(SessionToken, "error", "RefreshAccessTokenError")
    ELSE call[c].ret

\* ------------------------------------------------------------ specification
\* The handlers' steps after the arrival of a request, and the TTL monitor.
Steps ==
    \/ \E rec \in usedTokens : ExpireUsedToken(rec)
    \/ \E r \in Started : RefreshFindUser(r)
    \/ \E r \in Started : GenerateTokens(r)
    \/ \E r \in Started : SaveUser(r)
    \/ \E r \in Started : RefreshRecordUsed(r)
    \/ \E r \in Started : RefreshGrace(r)

\* Clients that present what they were handed: refresh tokens of 200
\* responses (current, rotated, expired), valid credentials, access tokens of
\* 200 responses.
Next ==
    \/ Steps
    \/ \E d \in TickSteps : Tick(d)
    \/ \E r \in Reqs, tok \in issuedRefresh : RefreshVerify(r, tok)
    \/ \E r \in Reqs, uid \in Users : LoginFindUser(r, uid, "valid")
    \/ \E r \in Reqs, bearer \in issuedAccess : Logout(r, bearer)

Spec == Init /\ [][Next]_vars

\* Clients that present anything.
NextAnyInput ==
    \/ Steps
    \/ /\ events < MaxInputEvents
       /\ \/ \E d \in TickSteps : Tick(d)
          \/ \E r \in Reqs, tok \in RefreshInputs : RefreshVerify(r, tok)
          \/ \E r \in Reqs, uid \in Users, cred \in LoginInputs : LoginFindUser(r, uid, cred)
          \/ \E r \in Reqs, bearer \in LogoutInputs : Logout(r, bearer)

SpecAnyInput == Init /\ [][NextAnyInput]_vars

\* The steps of distributedSingleFlightRefresh after its first await, and
\* the expiries in Redis.
WrapperSteps ==
    \/ \E c \in Callers, ok \in BOOLEAN : QuickGet(c, ok)
    \/ \E c \in Callers, ans \in BackendAnswers : LocalRefresh(c, ans)
    \/ \E c \in Callers, ok \in BOOLEAN : AcquireLock(c, ok)
    \/ \E c \in Callers, ans \in BackendAnswers : LeaderRefresh(c, ans)
    \/ \E c \in Callers, ok \in BOOLEAN : PublishResult(c, ok)
    \/ \E c \in Callers, ok \in BOOLEAN : Unlock(c, ok)
    \/ \E c \in Callers, ok \in BOOLEAN : PollOnce(c, ok)
    \/ \E c \in Callers, ans \in BackendAnswers : FollowerRefresh(c, ans)
    \/ \E c \in Callers, ok \in BOOLEAN : FollowerRecheck(c, ok)
    \/ LeaseExpire
    \/ ResultExpire

\* Concurrent calls of the wrapper for one refresh key, each from a process
\* of its own.
ClientNext ==
    \/ \E c \in Callers : StartCall(c)
    \/ WrapperSteps

ClientSpec == InitClient /\ [][ClientNext]_vars

\* The same calls, with leaders whose process may end at any point. Every
\* Redis command and sleep a running call awaits settles (maxRetriesPerRequest,
\* connectTimeout), the refresh it awaits completes, and Redis drops a key
\* whose lease ran out.
CrashNext ==
    \/ ClientNext
    \/ \E c \in Callers : Crash(c)

CrashSpec ==
    /\ InitClient
    /\ [][CrashNext]_vars
    /\ WF_vars(WrapperSteps)
    /\ WF_vars(LeaseExpire)

\* ---------------------------------------------- the TTL of the cached result
\* Clock readings and expiry times are taken on a grid of GridMs milliseconds.
GridMs == 1000

MaxNowSteps == 2

MaxExpirySteps == 60

Max(a, b) == IF a >= b THEN a ELSE b

Min(a, b) == IF a <= b THEN a ELSE b

\* Number(v || 0) for a value that is a number or undefined; a number is a
\* one-element sequence, undefined the empty one.
NumberOr0(v) == IF v = <<>> THEN 0 ELSE v[1]

\* x || y for numbers: 0 is falsy.
OrElse(x, y) == IF x = 0 THEN y ELSE x

\* expiresMs, msUntilEarly and resultTtlMs of the leader.
resultTtlMs(accessTokenExpires, dateNow) ==
    LET expiresMs == NumberOr0(accessTokenExpires)
        msUntilEarly == Max(0, expiresMs - dateNow - EARLY_REFRESH_WINDOW_MS)
    IN Max(RESULT_TTL_FLOOR_MS,
           Min(RESULT_TTL_CAP_MS, OrElse(msUntilEarly, RESULT_TTL_CAP_MS)))

\* The accessTokenExpires of a refresh result: absent, 0 (set on a hard
\* revoke), or a time on the grid.
ExpiryValues == {<<>>} \cup {<<k * GridMs>> : k \in 0..MaxExpirySteps}

TtlInit ==
    /\ ServerInit("loggedIn")
    /\ redis = "up"
    /\ ClientInit
    /\ input \in [accessTokenExpires : ExpiryValues,
                  dateNow : {k * GridMs : k \in 0..MaxNowSteps}]
    /\ output = <<>>

\* The leader computes the TTL of the result it is about to write.
ComputeResultTtl ==
    /\ output = <<>>
    /\ output' = <<resultTtlMs(input.accessTokenExpires, input.dateNow)>>
    /\ UNCHANGED input
    /\ UNCHANGED <<redis, lockVal, cached, call, backendCalls>>
    /\ UNCHANGED processVars
    /\ UNCHANGED serverVars

TtlSpec == TtlInit /\ [][ComputeResultTtl]_vars

\* --------------------------------------------------- callbacks.jwt, the gate
\* stableJitterMs yields 0..9999 ms; the jitter values are taken on the grid.
MaxJitterSteps == 9

\* token.refreshJitterMs: absent or a number.
JitterValues == {<<>>} \cup {<<k * GridMs>> : k \in 0..MaxJitterSteps}

\* token.refreshError?.status: absent, a hard revoke, another failure.
RefreshErrorStatuses == {<<>>, <<401>>, <<403>>, <<500>>, <<0>>}

\* The fields of the session token the callback reads and writes.
JwtTokens == [accessTokenExpires : ExpiryValues,
              refreshJitterMs : JitterValues,
              refreshErrorStatus : RefreshErrorStatuses,
              error : {Undefined}]

\* The user object authorize() returns on a sign-in.
SignInUser == [accessTokenExpires |-> <<MaxExpirySteps * GridMs>>,
               refreshJitterMs |-> <<0>>]

\* A gate that ignores the session's jitter.
needsRefresh_NoJitter(token, dateNow) ==
    LET expires == NumberOr0(token.accessTokenExpires)
    IN expires = 0 \/ dateNow >= expires - EARLY_REFRESH_WINDOW_MS

\* jitter, expires and needsRefresh of the callback; !expires is expires = 0
\* for the numbers the field can hold.
needsRefresh(token, dateNow) ==
    LET jitter == NumberOr0(token.refreshJitterMs)
        expires == NumberOr0(token.accessTokenExpires)
    IN expires = 0 \/ dateNow >= expires - (EARLY_REFRESH_WINDOW_MS + jitter)

\* What getOrCreateRefreshPromise(token, refreshAccessToken) can settle with,
\* as far as the fields above go: a refreshed token, an error token (with
\* the expiry cleared on a hard revoke), or a rejection turned into an error
\* token by the catch of the callback.
RefreshOutcomes(token, dateNow) ==
    {[token EXCEPT !.accessTokenExpires = <<dateNow + MaxExpirySteps * GridMs>>,
                   !.refreshErrorStatus = <<>>]}
    \cup {[token EXCEPT !.error = "RefreshAccessTokenError",
                        !.refreshErrorStatus = <<st>>,
                        !.accessTokenExpires =
                            IF st \in {401, 403} THEN <<0>> ELSE @] : st \in {401, 403, 500, 0}}
    \cup {[token EXCEPT !.error = "RefreshAccessTokenError"]}

\* A check that knows 401 only.
HardRevoked_Only401(token) == token.refreshErrorStatus = <<401>>

\* token?.refreshError?.status === 401 || token?.refreshError?.status === 403
HardRevoked(token) == token.refreshErrorStatus \in {<<401>>, <<403>>}

JwtInit ==
    /\ ServerInit("loggedIn")
    /\ redis = "up"
    /\ ClientInit
    /\ input \in [token : JwtTokens,
                  user : {<<>>, <<SignInUser>>},
                  dateNow : {k * GridMs : k \in 0..MaxNowSteps}]
    /\ output = <<>>

\* async jwt({ token, user }): the sign-in branch, the hard-revoke branch,
\* the gate, and the refresh behind it. output records what is returned and
\* whether getOrCreateRefreshPromise was called, the only way from the
\* callback to Redis and to the backend.
JwtCallback ==
    /\ output = <<>>
    /\ LET token == input.token
       IN CASE input.user # <<>> ->
                 output' = <<[called |-> FALSE,
                              token |-> [token EXCEPT
                                  !.accessTokenExpires = input.user[1].accessTokenExpires,
                                  !.refreshJitterMs = input.user[1].refreshJitterMs,
                                  !.refreshErrorStatus = <<>>,
                                  !.error = Undefined]]>>
            [] input.user = <<>> /\ HardRevoked(token) ->
                 output' = <<[called |-> FALSE, token |-> token]>>
            [] OTHER ->
                 IF ~needsRefresh(token, input.dateNow)
                 THEN output' = <<[called |-> FALSE, token |-> token]>>
                 ELSE \E refreshed \in RefreshOutcomes(token, input.dateNow) :
                          output' = <<[called |-> TRUE, token |-> refreshed]>>
    /\ UNCHANGED input
    /\ UNCHANGED <<redis, lockVal, cached, call, backendCalls>>
    /\ UNCHANGED processVars
    /\ UNCHANGED serverVars

JwtSpec == JwtInit /\ [][JwtCallback]_vars

\* A session from its sign-in on: the token a callback returned is the token
\* of the next callback (the session cookie carries it), at the same or a
\* later time, with or without a new sign-in.
JwtSessionInit ==
    /\ ServerInit("loggedIn")
    /\ redis = "up"
    /\ ClientInit
    /\ input \in [token : {t \in JwtTokens : t.refreshErrorStatus = <<>>},
                  user : {<<>>},
                  dateNow : {0}]
    /\ output = <<>>

NextCallback(user, dateNow) ==
    /\ output # <<>>
    /\ user \in {<<>>, <<SignInUser>>}
    /\ dateNow \in {k * GridMs : k \in 0..MaxNowSteps}
    /\ dateNow >= input.dateNow
    /\ input' = [token |-> output[1].token, user |-> user, dateNow |-> dateNow]
    /\ output' = <<>>
    /\ UNCHANGED <<redis, lockVal, cached, call, backendCalls>>
    /\ UNCHANGED processVars
    /\ UNCHANGED serverVars

JwtSessionNext ==
    \/ JwtCallback
    \/ \E user \in {<<>>, <<SignInUser>>}, dateNow \in {k * GridMs : k \in 0..MaxNowSteps} :
           NextCallback(user, dateNow)

JwtSessionSpec == JwtSessionInit /\ [][JwtSessionNext]_vars

\* ------------------------------------- refreshAccessToken on any token
\* The session tokens the jwt callback can hand to refreshAccessToken: after a
\* sign-in or a refresh, or after a soft failure of an earlier refresh.
PreviousTokens ==
    [accessToken : {"a0", Undefined},
     refreshToken : {"r0", "r9"},
     accessTokenExpires : {"due", "0", "fresh"},
     error : {Undefined, "RefreshAccessTokenError"},
     refreshError : {Undefined, "500", "0"}]

RefreshInit ==
    /\ ServerInit("loggedIn")
    /\ redis = "up"
    /\ ClientInit
    /\ input \in [token : PreviousTokens, ans : BackendAnswers, n : Callers]
    /\ output = <<>>

\* One call of refreshAccessToken(token) with the backend's answer.
RefreshAccessToken ==
    /\ output = <<>>
    /\ output' = <<refreshAccessToken(input.token, input.ans, input.n)>>
    /\ UNCHANGED input
    /\ UNCHANGED <<redis, lockVal, cached, call, backendCalls>>
    /\ UNCHANGED processVars
    /\ UNCHANGED serverVars

RefreshSpec == RefreshInit /\ [][RefreshAccessToken]_vars

\* ------------------------------------------------ client: callbacks.session
JsNull == "null"

\* x ?? y
Coalesce(x, y) == IF x \in {Undefined, JsNull} THEN y ELSE x

\* x || null, for strings and numbers: "", 0 and undefined give null.
OrNull(x) == IF x \in {Undefined, JsNull, "0", ""} THEN JsNull ELSE x

\* {...a, ...b}
Spread(a, b) == [k \in DOMAIN a \cup DOMAIN b |-> IF k \in DOMAIN b THEN b[k] ELSE a[k]]

\* token.user || {} when the sign-in had no user object in the login answer.
NoProfile == [k \in {} |-> Undefined]

\* The user object of the login answer, kept by the sign-in as token.user.
LoginProfile == [_id |-> "u1", username |-> "bob", email |-> "bob@x", role |-> "user",
                 plan |-> "free", subscriptionStatus |-> "free"]

\* The session token as the session callback reads it.
CookieTokens ==
    [id : {Undefined, "u1"},
     sub : {"s1"},
     username : {"bob"},
     email : {JsNull},
     role : {"user"},
     user : {NoProfile, LoginProfile},
     accessToken : {Undefined, "a1"},
     accessTokenExpires : {"0", "fresh"},
     refreshToken : {Undefined, "r1", "r2"},
     error : {Undefined, "RefreshAccessTokenError"},
     refreshError : {Undefined, "403"}]

\* The session object the callback is handed: the default session, or one
\* that has error fields on it.
DefaultSessions ==
    [expires : {"later"},
     user : {[name |-> "bob", email |-> JsNull, image |-> JsNull]},
     error : {Undefined, "RefreshAccessTokenError"},
     refreshError : {Undefined, "500"}]

\* A user object that takes in the whole session token.
SessionUser_SpreadsToken(token) ==
    Spread([id |-> Coalesce(token.id, Coalesce(token.sub, JsNull)),
            username |-> Coalesce(token.username, JsNull),
            email |-> Coalesce(token.email, JsNull),
            role |-> Coalesce(token.role, JsNull)],
           Spread([k \in DOMAIN token \ {"user"} |-> token[k]], token.user))

\* session.user = { id, username, email, role, ...(token.user || {}) }
SessionUser(token) ==
    Spread([id |-> Coalesce(token.id, Coalesce(token.sub, JsNull)),
            username |-> Coalesce(token.username, JsNull),
            email |-> Coalesce(token.email, JsNull),
            role |-> Coalesce(token.role, JsNull)],
           token.user)

\* callbacks.session({ session, token }); a deleted key reads undefined.
SessionObject(session, token) ==
    LET flagged == IF token.error = "RefreshAccessTokenError"
                   THEN Set(Set(session, "error", "RefreshAccessTokenError"),
                            "refreshError", Coalesce(token.refreshError, JsNull))
                   ELSE [k \in DOMAIN session \ {"error", "refreshError"} |-> session[k]]
    IN  Set(Set(Set(flagged,
            "user", SessionUser(token)),
            "accessToken", OrNull(token.accessToken)),
            "accessTokenExpires", OrNull(token.accessTokenExpires))

\* Two session tokens go through the callback with the same session object.
SessionInit ==
    /\ ServerInit("loggedIn")
    /\ redis = "up"
    /\ ClientInit
    /\ input \in [session : DefaultSessions, token : CookieTokens, other : CookieTokens]
    /\ output = <<>>

SessionCallback ==
    /\ output = <<>>
    /\ output' = <<SessionObject(input.session, input.token),
                   SessionObject(input.session, input.other)>>
    /\ UNCHANGED input
    /\ UNCHANGED <<redis, lockVal, cached, call, backendCalls>>
    /\ UNCHANGED processVars
    /\ UNCHANGED serverVars

SessionSpec == SessionInit /\ [][SessionCallback]_vars

\* ------------------------------------------- the refresh jitter of a session
MaxSessions == 2

MaxSecond == 2

Sessions == 1..MaxSessions

\* keyId(raw): HMAC-SHA256 of the string in base64url, a digest for which no
\* two inputs are known to collide.
keyId(raw) == <<"keyId", raw>>

\* refreshKeyFor(token): token?.refreshToken ?? token?.sub ?? "anon". A field
\* is a one-element sequence, an absent one the empty sequence.
refreshKeyFor(refreshToken, sub) ==
    keyId(IF refreshToken # <<>> THEN refreshToken[1]
          ELSE IF sub # <<>> THEN sub[1] ELSE "anon")

\* The refresh tokens the backend can hand out to the principal by MaxSecond,
\* and their keys.
JitterKeys == {refreshKeyFor(<<generateRefreshToken(u, t)>>, <<>>) :
                  u \in Users, t \in 0..MaxSecond}

\* (buf[0] << 8) | buf[1] of an HMAC-SHA256 digest: a 16-bit number fixed by
\* the input; which one is not known, the values below stand for the range.
DigestWords == {0, 9999, 10000, 65535}

\* stableJitterMs(input) under the digest drawn at the start.
stableJitterMs(key) == input.digest[key] % 10000

NoSession == [active |-> FALSE, uid |-> "-", refreshToken |-> Null,
              refreshJitterMs |-> 0, signInJitterMs |-> 0]

JitterInit ==
    /\ ServerInit("registered")
    /\ redis = "up"
    /\ ClientInit
    /\ input \in [digest : [JitterKeys -> DigestWords]]
    /\ output = [session |-> [s \in Sessions |-> NoSession], result |-> <<>>]

\* The clock of the jitter behaviours, in seconds.
JitterTick ==
    /\ now < MaxSecond
    /\ now' = now + 1
    /\ UNCHANGED <<events, userRefreshToken, usedTokens, req, res, seen,
                   issuedRefresh, issuedAccess, superseded>>
    /\ UNCHANGED <<redis, lockVal, cached, call, backendCalls>>
    /\ UNCHANGED processVars
    /\ UNCHANGED pureVars

\* authorize(credentials) after a 200 of the login, followed by the jwt
\* callback with `user` set: the backend minted the refresh token in this
\* second; sub is what the access token or data.user.id provide (this
\* backend sends neither: the payload and the user object carry _id).
SignIn(s, u, sub) ==
    /\ ~output.session[s].active
    /\ \A z \in Sessions : z < s => output.session[z].active
    /\ u \in Users
    /\ sub \in {<<>>, <<u>>}
    /\ LET refreshToken == generateRefreshToken(u, now)
           userKey == refreshKeyFor(<<refreshToken>>, sub)
           jitterMs == stableJitterMs(userKey)
       IN output' = [output EXCEPT !.session[s] =
                        [active |-> TRUE, uid |-> u, refreshToken |-> refreshToken,
                         refreshJitterMs |-> jitterMs, signInJitterMs |-> jitterMs]]
    /\ UNCHANGED input
    /\ UNCHANGED <<redis, lockVal, cached, call, backendCalls>>
    /\ UNCHANGED processVars
    /\ UNCHANGED serverVars

\* The jwt callback of a session whose token is due, as the caller that runs
\* refreshAccessToken: { ...token, refreshToken: data.refreshToken ??
\* token.refreshToken } on success, { ...token, error } otherwise; the
\* result is written under the refresh key of the token it was called with.
SessionRefresh(s, rotated, published) ==
    /\ output.session[s].active
    /\ LET token == output.session[s]
           refreshed == [token EXCEPT !.refreshToken =
                            IF rotated THEN generateRefreshToken(token.uid, now) ELSE @]
       IN output' = [output EXCEPT
                        !.session[s] = refreshed,
                        !.result = IF published
                                   THEN <<[key |-> refreshKeyFor(<<token.refreshToken>>, <<>>),
                                           token |-> refreshed]>>
                                   ELSE @]
    /\ UNCHANGED input
    /\ UNCHANGED <<redis, lockVal, cached, call, backendCalls>>
    /\ UNCHANGED processVars
    /\ UNCHANGED serverVars

\* The jwt callback of a session whose token is due, as a caller that finds
\* a cached result under its refresh key: return JSON.parse(cachedStr).
SessionReuse(s) ==
    /\ output.session[s].active
    /\ output.result # <<>>
    /\ output.result[1].key = refreshKeyFor(<<output.session[s].refreshToken>>, <<>>)
    /\ output' = [output EXCEPT !.session[s] =
                     [output.result[1].token EXCEPT
                         !.signInJitterMs = output.session[s].signInJitterMs]]
    /\ UNCHANGED input
    /\ UNCHANGED <<redis, lockVal, cached, call, backendCalls>>
    /\ UNCHANGED processVars
    /\ UNCHANGED serverVars

JitterNext ==
    \/ JitterTick
    \/ \E s \in Sessions, u \in Users, sub \in {<<>>} \cup {<<v>> : v \in Users} :
           SignIn(s, u, sub)
    \/ \E s \in Sessions, rotated, published \in BOOLEAN :
           SessionRefresh(s, rotated, published)
    \/ \E s \in Sessions : SessionReuse(s)

JitterSpec == JitterInit /\ [][JitterNext]_vars

\* ------------------------------- authenticate, authorize(resource), handler
\* What the Authorization header of a request to a protected route can
\* carry: nothing, a string without a valid signature, a refresh token, an
\* access token of a principal.
BearerInputs == {Null, Forged} \cup {generateRefreshToken(u, 0) : u \in Users}
                \cup {generateAccessToken(u, 0) : u \in Users}

\* The role and plan claims generateAccessToken signs into an access token.
Roles == {"admin", "user"}

PlanSlugs == {"free", "professional"}

\* mapMethodToAction(req.method)
mapMethodToAction(method) ==
    CASE method = "GET" -> "read"
      [] method = "POST" -> "write"
      [] method = "PUT" -> "update"
      [] method = "PATCH" -> "update"
      [] method = "DELETE" -> "delete"

AuthzInit ==
    /\ ServerInit("loggedIn")
    /\ redis = "up"
    /\ ClientInit
    /\ input \in [bearer : BearerInputs, role : Roles, plan : PlanSlugs,
                  method : {"GET", "POST", "PUT", "DELETE"},
                  clock : {0, ACCESS_TOKEN_EXPIRY},
                  enforcerReady : BOOLEAN, hasPermission : BOOLEAN]
    /\ output = [pc |-> "authenticate", user |-> <<>>, status |-> 0,
                 enforced |-> <<>>]

\* authenticate: the header check, jwt.verify(token, ACCESS_TOKEN_SECRET),
\* req.user = decoded and next(), or a 401.
Authenticate ==
    /\ output # <<>> /\ output.pc = "authenticate"
    /\ LET v == IF input.bearer = Null THEN "missing"
                ELSE jwtVerify(input.bearer, "access", input.clock)
       IN output' = IF v = "ok"
                    THEN [output EXCEPT
                             !.user = <<[_id |-> input.bearer.uid,
                                         role |-> input.role, plan |-> input.plan]>>,
                             !.pc = "authorize"]
                    ELSE [output EXCEPT !.status = 401, !.pc = "answered"]
    /\ UNCHANGED input
    /\ UNCHANGED <<redis, lockVal, cached, call, backendCalls>>
    /\ UNCHANGED processVars
    /\ UNCHANGED serverVars

\* A middleware that hands every request on to the route handler.
Proceeds_Always(hasPermission) == TRUE

\* if (hasPermission) next(); else res.status(403)
Proceeds(hasPermission) == hasPermission

\* authorize(resource), up to the call of enforce: await getEnforcer() (a
\* rejection leaves the request without an answer from this middleware), the
\* check of req.user._id and req.user.plan with its 401, and
\* enforcer.enforce(req.user.role, req.user.plan, resource, action).
AuthorizeCheck ==
    /\ output # <<>> /\ output.pc = "authorize"
    /\ output' =
          IF ~input.enforcerReady THEN [output EXCEPT !.pc = "thrown"]
          ELSE IF output.user = <<>>
          THEN [output EXCEPT !.status = 401, !.pc = "answered"]
          ELSE [output EXCEPT
                   !.enforced = <<[sub |-> output.user[1].role,
                                   dom |-> output.user[1].plan,
                                   obj |-> "admin",
                                   act |-> mapMethodToAction(input.method)]>>,
                   !.pc = "enforce"]
    /\ UNCHANGED input
    /\ UNCHANGED <<redis, lockVal, cached, call, backendCalls>>
    /\ UNCHANGED processVars
    /\ UNCHANGED serverVars

\* authorize(resource) after enforce has answered: next() or the 403.
AuthorizeDecide ==
    /\ output # <<>> /\ output.pc = "enforce"
    /\ output' = IF Proceeds(input.hasPermission)
                 THEN [output EXCEPT !.pc = "handler"]
                 ELSE [output EXCEPT !.status = 403, !.pc = "answered"]
    /\ UNCHANGED input
    /\ UNCHANGED <<redis, lockVal, cached, call, backendCalls>>
    /\ UNCHANGED processVars
    /\ UNCHANGED serverVars

AuthzNext == Authenticate \/ AuthorizeCheck \/ AuthorizeDecide

AuthzSpec == AuthzInit /\ [][AuthzNext]_vars

\* ------------------------------------------- the lease of the lock, in time
\* How long the leader's refresh is followed, in steps of GridMs.
MaxLeaseSteps == 13

\* An interval longer than the lease.
KeepAliveEveryMs_TwiceTheLease == 2 * LOCK_TTL_MS

\* Math.max(250, Math.floor(LOCK_TTL_MS / 2)), the period of keepAlive.
KeepAliveEveryMs == Max(250, LOCK_TTL_MS \div 2)

\* A leader (caller 1) has just acquired the lock with PX LOCK_TTL_MS and set
\* its interval; a second caller (2) is about to try the lock.
LeaseInit ==
    /\ ServerInit("loggedIn")
    /\ redis \in {"up", "flaky"}
    /\ ClientInit
    /\ input = <<>>
    /\ output = [clock |-> 0, holder |-> 1, leaseLeft |-> LOCK_TTL_MS,
                 interval |-> TRUE, sinceTick |-> 0, renewals |-> 0,
                 leader |-> "refresh", second |-> "lock"]

\* Time passes by GridMs, unless the interval's callback or the expiry of
\* the key is due first.
LeaseAdvance ==
    /\ output # <<>> /\ output.clock < MaxLeaseSteps * GridMs
    /\ ~(output.interval /\ output.sinceTick >= KeepAliveEveryMs)
    /\ ~(output.holder # 0 /\ output.leaseLeft <= 0)
    /\ output' = [output EXCEPT
                     !.clock = @ + GridMs,
                     !.leaseLeft = IF output.holder # 0 THEN @ - GridMs ELSE @,
                     !.sinceTick = IF output.interval THEN @ + GridMs ELSE @]
    /\ UNCHANGED input
    /\ UNCHANGED <<redis, lockVal, cached, call, backendCalls>>
    /\ UNCHANGED processVars
    /\ UNCHANGED serverVars

\* The callback of keepAlive: redis.pexpire(lKey, LOCK_TTL_MS).catch(() => {}).
\* PEXPIRE sets the time to live of the key if the key exists, whatever its
\* value.
KeepAliveTick(ok) ==
    /\ output # <<>> /\ output.interval
    /\ output.sinceTick >= KeepAliveEveryMs
    /\ ok \in RedisOutcomes
    /\ output' = [output EXCEPT
                     !.sinceTick = 0,
                     !.renewals = IF ok THEN @ + 1 ELSE @,
                     !.leaseLeft = IF ok /\ output.holder # 0 THEN LOCK_TTL_MS ELSE @]
    /\ UNCHANGED input
    /\ UNCHANGED <<redis, lockVal, cached, call, backendCalls>>
    /\ UNCHANGED processVars
    /\ UNCHANGED serverVars

\* Redis drops the lock key when its time to live has run out.
LeaseRunsOut ==
    /\ output # <<>> /\ output.holder # 0 /\ output.leaseLeft <= 0
    /\ output' = [output EXCEPT !.holder = 0]
    /\ UNCHANGED input
    /\ UNCHANGED <<redis, lockVal, cached, call, backendCalls>>
    /\ UNCHANGED processVars
    /\ UNCHANGED serverVars

\* The leader's refreshFn has returned: the result is written and the
\* finally block clears the interval and runs the unlock script.
LeaderFinish(ok) ==
    /\ output # <<>> /\ output.leader = "refresh"
    /\ ok \in RedisOutcomes
    /\ output' = [output EXCEPT
                     !.leader = "finished",
                     !.interval = FALSE,
                     !.holder = IF ok THEN UNLOCK_LUA(@, 1) ELSE @]
    /\ UNCHANGED input
    /\ UNCHANGED <<redis, lockVal, cached, call, backendCalls>>
    /\ UNCHANGED processVars
    /\ UNCHANGED serverVars

\* The second caller's redis.set(lKey, lockId, "PX", LOCK_TTL_MS, "NX").
SecondAcquire(ok) ==
    /\ output # <<>> /\ output.second = "lock"
    /\ ok \in RedisOutcomes
    /\ output' = IF ~ok THEN [output EXCEPT !.second = "local"]
                 ELSE IF NXAllows(output.holder)
                 THEN [output EXCEPT !.second = "leader", !.holder = 2,
                                     !.leaseLeft = LOCK_TTL_MS]
                 ELSE [output EXCEPT !.second = "poll"]
    /\ UNCHANGED input
    /\ UNCHANGED <<redis, lockVal, cached, call, backendCalls>>
    /\ UNCHANGED processVars
    /\ UNCHANGED serverVars

LeaseNext ==
    \/ LeaseAdvance
    \/ \E ok \in BOOLEAN : KeepAliveTick(ok)
    \/ LeaseRunsOut
    \/ \E ok \in BOOLEAN : LeaderFinish(ok)
    \/ \E ok \in BOOLEAN : SecondAcquire(ok)

LeaseSpec == LeaseInit /\ [][LeaseNext]_vars

\* ----------------------------- server: the plan claim of the access token
\* Instants of the subscription dates and of the clock, in seconds.
MaxPlanSecond == 2

\* A date field: null, or an instant.
PlanDates == {<<>>} \cup {<<t>> : t \in 0..MaxPlanSecond}

\* user.planId: null, a populated Plan document, or an ObjectId that is not
\* populated (its slug reads undefined).
NoPlanId == [kind |-> "none", slug |-> ""]
PlanDoc(slug) == [kind |-> "doc", slug |-> slug]
PlanObjectId(slug) == [kind |-> "id", slug |-> slug]

\* The User documents loginUser and refreshAccessToken load with
\* populate('planId').
PlanUsers ==
    [subscriptionStatus : {"free", "active", "trialing", "canceled"},
     planId : {NoPlanId, PlanDoc("free"), PlanDoc("pro")},
     subscriptionEndDate : PlanDates,
     trialEndsAt : PlanDates]

\* The condition of checkAndUpdateExpiredStatus: an active subscription or a
\* trial whose end date is set and not after now.
SubscriptionExpired(user, dateNow) ==
    \/ /\ user.subscriptionStatus = "active"
       /\ user.subscriptionEndDate # <<>>
       /\ user.subscriptionEndDate[1] <= dateNow
    \/ /\ user.subscriptionStatus = "trialing"
       /\ user.trialEndsAt # <<>>
       /\ user.trialEndsAt[1] <= dateNow

\* userSchema.methods.checkAndUpdateExpiredStatus: the document after
\* Object.assign(this, updateData); freePlan is whether
\* Plan.findOne({slug: 'free'}) finds a document.
checkAndUpdateExpiredStatus(user, dateNow, freePlan) ==
    IF ~SubscriptionExpired(user, dateNow) THEN user
    ELSE IF freePlan
         THEN [user EXCEPT !.planId = PlanObjectId("free"),
                           !.subscriptionStatus = "free",
                           !.subscriptionEndDate = <<>>,
                           !.trialEndsAt = <<>>]
         ELSE [user EXCEPT !.subscriptionStatus = "canceled"]

\* planSlug of userSchema.methods.generateAccessToken.
planSlug(user) ==
    IF user.planId.kind = "doc" /\ user.planId.slug # ""
    THEN user.planId.slug
    ELSE "free"

PlanInit ==
    /\ ServerInit("loggedIn")
    /\ redis = "up"
    /\ ClientInit
    /\ input \in [user : PlanUsers, dateNow : 0..MaxPlanSecond, freePlan : BOOLEAN]
    /\ output = <<>>

\* generateAccessAndRefereshTokens: await this.checkAndUpdateExpiredStatus()
CheckExpiredStatus ==
    /\ output = <<>>
    /\ output' = <<checkAndUpdateExpiredStatus(input.user, input.dateNow, input.freePlan)>>
    /\ UNCHANGED input
    /\ UNCHANGED <<redis, lockVal, cached, call, backendCalls>>
    /\ UNCHANGED processVars
    /\ UNCHANGED serverVars

\* generateAccessAndRefereshTokens: this.generateAccessToken(), the plan
\* claim of the payload.
SignAccessToken ==
    /\ Len(output) = 1
    /\ output' = <<output[1], planSlug(output[1])>>
    /\ UNCHANGED input
    /\ UNCHANGED <<redis, lockVal, cached, call, backendCalls>>
    /\ UNCHANGED processVars
    /\ UNCHANGED serverVars

PlanNext == CheckExpiredStatus \/ SignAccessToken

PlanSpec == PlanInit /\ [][PlanNext]_vars

\* Calls of getOrCreateRefreshPromise for one refresh key within one process.
ProcessNext ==
    \/ \E c \in Callers, got \in BOOLEAN : GetOrCreate(c, got)
    \/ \E c \in Callers : DeleteEntry(c)
    \/ \E c \in Callers : ReceiveResult(c)
    \/ WrapperSteps

ProcessSpec == InitClient /\ [][ProcessNext]_vars

\* ------------------------------------------------------------------ claims
RefreshDone(r) == req[r].op = "refresh" /\ req[r].pc = "done"

\* The request passed jwt.verify and found its principal.
Evaluated(r) == RefreshDone(r) /\ seen[r].verify = "ok" /\ req[r].uid \in Users

\* Two requests presenting the same refresh token.
SameToken(r, q) == r # q /\ req[r].op = "refresh" /\ req[q].op = "refresh"
                   /\ req[r].token = req[q].token

\* C1: two refresh requests that present the same token T and both load the
\* principal while T is the stored pointer are both answered 200 with the
\* same new refresh token (one of them having rotated, the other having been
\* answered from the ledger).
C1_SameNewRefreshToken ==
    \A r, q \in Started :
        (/\ SameToken(r, q) /\ Evaluated(r) /\ Evaluated(q)
         /\ seen[r].atLoad = req[r].token /\ seen[q].atLoad = req[q].token
         /\ res[r].refreshToken # req[r].token /\ res[q].refreshToken # req[q].token)
        => /\ res[r].status = 200 /\ res[q].status = 200
           /\ res[r].refreshToken = res[q].refreshToken

\* The token of a request was not the stored pointer when the principal was
\* loaded and the ledger held it at the lookup.
GraceCase(r) == /\ Evaluated(r)
                /\ seen[r].atLoad # req[r].token
                /\ seen[r].inLedger

C3_SaveIsCompareAndSwap ==
    [][\A r \in Started :
         (/\ req[r].op = "refresh" /\ req[r].pc = "save" /\ req'[r].pc = "record"
          /\ userRefreshToken[req[r].uid] # req[r].token
          /\ userRefreshToken[req[r].uid] # Null)
         => userRefreshToken' = userRefreshToken]_vars

\* C4: a refresh token that was stored and then replaced (by a login, a
\* rotation or a logout) is never the stored pointer again.
C4_SupersededNeverCurrent ==
    \A u \in Users : userRefreshToken[u] \notin superseded

\* C5: a refresh request whose token is validly signed and unexpired, is not
\* the stored pointer when the principal is loaded and has no ledger record at
\* the lookup is answered 403 without tokens.
C5_StaleRejected ==
    \A r \in Started :
        (Evaluated(r) /\ seen[r].atLoad # req[r].token /\ ~seen[r].inLedger)
        => /\ res[r].status = 403
           /\ res[r].accessToken = Null /\ res[r].refreshToken = Null
           /\ ~seen[r].wrote

\* A token that was rotated or replaced was presented, found neither stored
\* nor in the ledger, and rejected.
C5_Witness ==
    \E r \in Started :
        /\ Evaluated(r) /\ seen[r].atLoad # req[r].token /\ ~seen[r].inLedger
        /\ req[r].token \in superseded
        /\ res[r].status = 403

\* C6: a refresh request whose token is past its signed expiry when it arrives
\* is answered at once with the expired rejection, also when the token is the
\* stored pointer: no tokens, no rotation.
C6_ExpiredRejected ==
    \A r \in Started :
        (req[r].op = "refresh" /\ req[r].token.typ = "refresh" /\ seen[r].pastExpiry)
        => /\ req[r].pc = "done"
           /\ res[r].status \in {401, 403}
           /\ res[r].msg = "Forbidden: Refresh token expired."
           /\ res[r].accessToken = Null /\ res[r].refreshToken = Null
           /\ seen[r].path = "-" /\ ~seen[r].wrote

\* An expired token that was the stored pointer was presented.
C6_Witness ==
    \E r \in Started :
        /\ req[r].op = "refresh" /\ req[r].token.typ = "refresh" /\ seen[r].pastExpiry
        /\ seen[r].atArrival = req[r].token
        /\ userRefreshToken[req[r].uid] = req[r].token
        /\ req[r].pc = "done"

\* C7: the refresh endpoint answers an expired refresh token with 401 and an
\* invalid one (stale, replayed) with 403.
C7_ExpiredIs401InvalidIs403 ==
    \A r \in Started :
        RefreshDone(r) =>
            /\ (req[r].token.typ = "refresh" /\ seen[r].pastExpiry) => res[r].status = 401
            /\ seen[r].path = "failure" => res[r].status = 403

\* C8: a refresh request whose token was the stored pointer when it arrived
\* and was rotated by another refresh of the same token before it loaded the
\* principal is answered 200.
C8_LostRaceAnswered200 ==
    \A r, q \in Started :
        (/\ SameToken(r, q) /\ Evaluated(r)
         /\ seen[r].atArrival = req[r].token
         /\ seen[r].atLoad # req[r].token
         /\ seen[q].wrote)
        => res[r].status = 200

\* C9: an authenticated logout is answered 200 and leaves no stored refresh
\* token; one that finds no stored refresh token leaves the database as it
\* is.
C9_LogoutIdempotent ==
    [][\A r \in DOMAIN req' :
         (r \notin Started /\ req'[r].op = "logout" /\ seen'[r].verify = "ok")
         => /\ res'[r].status = 200
            /\ userRefreshToken'[req'[r].uid] = Null
            /\ userRefreshToken[req'[r].uid] = Null
               => (userRefreshToken' = userRefreshToken /\ usedTokens' = usedTokens)]_vars

\* Two logouts in a row: the second found no stored refresh token.
C9_Witness ==
    \E r \in Started :
        /\ r + 1 \in Started
        /\ req[r].op = "logout" /\ res[r].status = 200
        /\ req[r + 1].op = "logout" /\ res[r + 1].status = 200
        /\ seen[r].atArrival # Null
        /\ seen[r + 1].atArrival = Null
        /\ userRefreshToken[req[r].uid] = Null

\* C10: when every Redis command of a call of the wrapper fails, the call
\* does not go on to the lock, runs the backend refresh exactly once, never
\* takes a turn of the polling loop, and returns what that refresh returned;
\* when the backend answers 200 with an access token the returned token
\* carries no error and the new access token.
C10_RedisDownLocalFallback ==
    \A c \in Callers :
        (call[c].pc = "done" /\ ~call[c].redisOk) =>
            /\ ~call[c].lockTried
            /\ call[c].refreshes = 1
            /\ ~call[c].polled
            /\ call[c].ret = call[c].attempt
            /\ call[c].ret = refreshAccessToken(SessionToken, call[c].answer, c)
            /\ BackendSucceeds(call[c].answer) =>
                  /\ Get(call[c].ret, "error") = Undefined
                  /\ Get(call[c].ret, "accessToken") = AccessNames[c]

\* Redis is down, a call has returned and the backend had answered 200 with
\* both tokens.
C10_Witness ==
    \E c \in Callers :
        /\ redis = "down"
        /\ call[c].pc = "done"
        /\ ~call[c].redisOk
        /\ call[c].answer = [status |-> "200", access |-> TRUE, refresh |-> TRUE]
        /\ Get(call[c].ret, "refreshToken") = RefreshNames[c]

\* Every answer the backend has given so far is a 200 with an access token.
BackendAlwaysSucceeds ==
    \A c \in Callers : call[c].answer # NoValue => BackendSucceeds(call[c].answer)

\* C11: whatever Redis operations fail, as long as the backend answers every
\* refresh with success the jwt callback of a caller whose promise has
\* settled returns a token without error that carries a new access token.
C11_RedisFailureNeverSurfaces ==
    BackendAlwaysSucceeds =>
        \A c \in Callers :
            call[c].pc \in {"done", "rejected"} =>
                /\ Get(jwtReturn(c), "error") = Undefined
                /\ Get(jwtReturn(c), "accessToken") # Get(SessionToken, "accessToken")

\* The operations of the process whose promise has not settled.
InFlight == {c \in Callers : awaits[c] = c /\ c \notin settled}

\* The caller was handed the promise of another call.
Joined(c) == awaits[c] \notin {0, c}

\* C12: within one process at most one operation per refresh key is in
\* flight; a caller that arrives while one is in flight is handed its promise,
\* starts no operation of its own (no Redis command, no backend refresh) and
\* receives what that operation settles with.
C12_OneInFlightPerProcess ==
    /\ Cardinality(InFlight) <= 1
    /\ \A c \in Callers :
        Joined(c) =>
            /\ call[c].refreshes = 0 /\ ~call[c].lockTried /\ ~call[c].redisOk
            /\ call[c].pc \in {"joined", "done", "rejected"}
            /\ call[c].pc # "joined" =>
                  /\ call[c].pc = call[awaits[c]].pc
                  /\ call[c].ret = call[awaits[c]].ret

\* A caller was handed the promise of an operation in flight and received the
\* refreshed token of that operation.
C12_Witness ==
    \E c \in Callers :
        /\ Joined(c)
        /\ call[c].pc = "done"
        /\ call[awaits[c]].refreshes = 1
        /\ Get(call[c].ret, "accessToken") = AccessNames[awaits[c]]
        /\ backendCalls = 1

\* The caller is inside refreshFn: as holder of the lock, in a catch block of
\* step 1 or 2, or as a follower whose wait has timed out.
AsLeader(c) == call[c].pc = "leader"
AsLocal(c) == call[c].pc = "local"
AsTimedOut(c) == call[c].pc = "poll" /\ call[c].waited * POLL_INTERVAL_MS >= WAIT_TIMEOUT_MS
Executing(c) == AsLeader(c) \/ AsLocal(c) \/ AsTimedOut(c)

\* C13 (as claimed): among the callers that share a Redis answering every
\* command, at no instant are two inside the backend refresh.
C13_OneRefreshAtATime ==
    redis = "up" => Cardinality({c \in Callers : Executing(c)}) <= 1

\* C13 (amended): while Redis answers every command, the caller inside the
\* backend refresh as leader holds the lock, no second caller is inside it as
\* leader and none runs it locally: any other caller inside it is a follower
\* whose wait timed out.  No call runs the backend refresh twice.
C13_OneLeaderAtATime ==
    /\ \A c \in Callers : call[c].refreshes <= 1
    /\ redis = "up" =>
          /\ \A c \in Callers : AsLeader(c) => lockVal = c
          /\ \A c \in Callers : ~AsLocal(c)
          /\ \A c, d \in Callers :
                (c # d /\ Executing(c) /\ Executing(d)) => (AsTimedOut(c) \/ AsTimedOut(d))

\* With Redis answering every command, the leader is inside the backend
\* refresh while a follower's wait has timed out.
C13_Witness ==
    \E c, d \in Callers :
        /\ redis = "up"
        /\ AsLeader(c) /\ lockVal = c
        /\ AsTimedOut(d)

\* C14: the unlock of a leader removes the lock key only when the key holds
\* that leader's lock id; a key that holds the id of another leader, which
\* acquired the lock after the first one's lease ran out, is left as it is.
C14_UnlockOnlyOwnLock ==
    [][\A c \in Callers :
         (call[c].pc = "unlock" /\ call'[c].pc = "done")
         => \/ lockVal' = lockVal
            \/ lockVal = c /\ lockVal' = 0]_vars

\* The unlock script of a leader ran while the key held the lock id of a
\* second leader, which still holds the lock.
C14_Witness ==
    \E c, d \in Callers :
        /\ c # d
        /\ call[c].pc = "done" /\ call[c].foreignLock
        /\ lockVal = d
        /\ call[d].pc \in {"leader", "publish", "unlock"}

\* C15: every lock a leader acquired is freed in the end: by the unlock of
\* the leader when its refresh has returned, whatever it returned, and by
\* the expiry of the lease when the leader's process ended or the unlock
\* failed.
C15_LockEventuallyFreed ==
    \A c \in Callers : (lockVal = c) ~> (lockVal = 0)

\* While Redis answers every command a leader's process ended with the lock
\* held, and the lock key is gone.
C15_Witness ==
    /\ redis = "up"
    /\ lockVal = 0
    /\ \E c \in Callers : call[c].pc = "crashed"

\* C16: the TTL with which the leader writes the cached result exceeds
\* neither RESULT_TTL_CAP_MS nor the time left until the early-refresh point
\* of the result's access token (accessTokenExpires - now -
\* EARLY_REFRESH_WINDOW_MS), whatever the result's accessTokenExpires is.
C16_TtlWithinCapAndEarlyPoint ==
    output # <<>> =>
        /\ output[1] <= RESULT_TTL_CAP_MS
        /\ output[1] <= NumberOr0(input.accessTokenExpires) - input.dateNow
                            - EARLY_REFRESH_WINDOW_MS

\* C17: a caller that did not get the lock polls the cached result; a poll
\* that reads a result returns it at once, the caller's own backend refresh
\* runs only when WAIT_TIMEOUT_MS has elapsed without one, and every such
\* call returns in the end, also when the leader never publishes a result.
C17_FollowerTerminates ==
    /\ [][\A c \in Callers :
            call[c].pc = "poll" =>
                /\ call'[c].pc \in {"poll", "done", "recheck"}
                /\ (call'[c].pc = "done" /\ call'[c].refreshes = call[c].refreshes)
                       => (cached # NoValue /\ call'[c].ret = cached)
                /\ call'[c].refreshes # call[c].refreshes
                       => call[c].waited * POLL_INTERVAL_MS >= WAIT_TIMEOUT_MS]_vars
    /\ \A c \in Callers : (call[c].pc = "poll") ~> (call[c].pc = "done")

\* A follower has returned from its own refresh, the only one that ran: the
\* leader's process ended before its refresh and nothing was published.
C17_Witness ==
    \E c, d \in Callers :
        /\ c # d
        /\ call[d].pc = "crashed"
        /\ call[c].pc = "done" /\ call[c].polled /\ call[c].refreshes = 1
        /\ call[c].waited * POLL_INTERVAL_MS >= WAIT_TIMEOUT_MS
        /\ backendCalls = 1
        /\ cached = NoValue

\* C18: a refresh answered through the grace path returns the access token
\* of a ledger record of the presented token, the one the rotation that
\* consumed the token issued, together with the refresh token stored for the
\* principal at that moment: the grace caller and every caller that rotated
\* the same token hold identical access tokens.
C18_GraceReturnsRotationTokens ==
    [][\A r \in Started :
         (/\ req[r].op = "refresh" /\ req[r].pc = "grace"
          /\ req'[r].pc = "done" /\ seen'[r].path = "grace")
         => /\ \E rec \in usedTokens : /\ rec.token = req[r].token
                                      /\ rec.accessToken = res'[r].accessToken
            /\ res'[r].refreshToken = userRefreshToken[req[r].uid]
            /\ \A q \in Started :
                 (SameToken(r, q) /\ RefreshDone(q) /\ seen[q].path = "happy")
                 => res[q].accessToken = res'[r].accessToken]_vars

\* C19: a failed login does not reveal which field is wrong: a login with an
\* identifier no principal has and a login with a known identifier and a
\* wrong password are both answered 401, with the same body.
C19_LoginFailureIndistinguishable ==
    \A r, q \in Started :
        (/\ req[r].op = "login" /\ req[r].pc = "done" /\ seen[r].verify = "unknown"
         /\ req[q].op = "login" /\ req[q].pc = "done" /\ seen[q].verify = "wrongPassword")
        => /\ res[r].status = 401 /\ res[q].status = 401
           /\ res[r] = res[q]

\* A jwt callback that has run, without a sign-in and without a hard revoke
\* on record.
PlainCallback ==
    /\ output # <<>>
    /\ input.user = <<>>
    /\ input.token.refreshErrorStatus \notin {<<401>>, <<403>>}

\* C20: on a jwt callback without a sign-in and without a prior hard revoke
\* the refresh is attempted exactly when now >= accessTokenExpires -
\* (EARLY_REFRESH_WINDOW_MS + jitter); otherwise the token is returned as it
\* came and neither Redis nor the backend is contacted.
C20_RefreshGate ==
    PlainCallback =>
        LET due == input.dateNow >=
                       NumberOr0(input.token.accessTokenExpires)
                       - (EARLY_REFRESH_WINDOW_MS + NumberOr0(input.token.refreshJitterMs))
        IN /\ output[1].called <=> due
           /\ ~due => output[1].token = input.token

\* The callback attempted a refresh of a token that the early window alone
\* would have left alone: the session's jitter brought it forward.
C20_Witness ==
    /\ PlainCallback
    /\ output[1].called
    /\ NumberOr0(input.token.refreshJitterMs) > 0
    /\ input.dateNow < NumberOr0(input.token.accessTokenExpires) - EARLY_REFRESH_WINDOW_MS

\* C21: the refresh jitter of a session is fixed by the principal's identity
\* (two sessions of one principal carry the same jitter), lies between 0 and
\* 10 seconds, and is the one set at sign-in after every refresh.
C21_JitterStablePerPrincipal ==
    /\ \A s \in Sessions :
         output.session[s].active =>
             /\ output.session[s].refreshJitterMs \in 0..10000
             /\ output.session[s].refreshJitterMs = output.session[s].signInJitterMs
    /\ \A s, z \in Sessions :
         (/\ output.session[s].active /\ output.session[z].active
          /\ output.session[s].uid = output.session[z].uid)
         => output.session[s].signInJitterMs = output.session[z].signInJitterMs

\* C22: enforce is called only for a request that carries the claims of a
\* verified access token (req.user with _id and plan); a request without
\* them is answered 401, with no call of enforce and no route handler, and a
\* request for which enforce answered false is answered 403 and does not
\* reach the route handler.
C22_EnforceOnlyAfterAuthentication ==
    /\ output.enforced # <<>> =>
           /\ output.user # <<>>
           /\ jwtVerify(input.bearer, "access", input.clock) = "ok"
           /\ output.enforced[1].dom = output.user[1].plan
    /\ output.user = <<>> =>
           /\ output.enforced = <<>>
           /\ output.pc \in {"authenticate", "answered"}
           /\ output.pc = "answered" => output.status = 401
    /\ (output.enforced # <<>> /\ ~input.hasPermission) =>
           /\ output.pc \in {"enforce", "answered"}
           /\ output.pc = "answered" => output.status = 403
    /\ output.pc = "handler" => (output.enforced # <<>> /\ input.hasPermission)

\* enforce was called for an authenticated request, answered false, and the
\* request was answered 403.
C22_Witness ==
    /\ output.enforced # <<>>
    /\ ~input.hasPermission
    /\ output.pc = "answered"
    /\ output.status = 403

\* C23: access tokens and refresh tokens are not interchangeable: the refresh
\* endpoint never answers 200 to a request that presents an access token, and
\* the authenticate middleware never lets a request through whose bearer
\* token is a refresh token.
C23_TokensNotInterchangeable ==
    \A r \in Started :
        /\ (req[r].op = "refresh" /\ req[r].token.typ = "access")
               => /\ res[r].status # 200
                  /\ req[r].pc = "done" => res[r].status = 403
        /\ (req[r].op = "logout" /\ req[r].token.typ = "refresh")
               => /\ seen[r].verify = "JsonWebTokenError"
                  /\ res[r].status = 401

\* An access token was presented to the refresh endpoint and a refresh token
\* the backend had issued was presented as bearer token; both were refused.
C23_Witness ==
    \E r, q \in Started :
        /\ req[r].op = "refresh" /\ req[r].token.typ = "access"
        /\ req[r].pc = "done" /\ res[r].status = 403
        /\ req[q].op = "logout" /\ req[q].token \in issuedRefresh
        /\ res[q].status = 401

\* C24: when the first read of a call of the wrapper finds a cached result
\* under the refresh key, the call returns that result: it does not try to
\* acquire the lock and it does not run the backend refresh.
C24_QuickPathReturnsCached ==
    [][\A c \in Callers :
         (/\ call[c].pc = "get" /\ call'[c].pc # "get"
          /\ call'[c].redisOk /\ cached # NoValue)
         => /\ call'[c].pc = "done"
            /\ call'[c].ret = cached
            /\ ~call'[c].lockTried /\ call'[c].refreshes = 0
            /\ lockVal' = lockVal /\ backendCalls' = backendCalls]_vars

\* A call has returned the cached result from its first read, with no lock
\* attempt, no polling and no backend refresh of its own.
C24_Witness ==
    \E c \in Callers :
        /\ call[c].pc = "done" /\ call[c].redisOk
        /\ ~call[c].lockTried /\ ~call[c].polled /\ call[c].refreshes = 0
        /\ call[c].ret # NoValue
        /\ backendCalls > 0

\* Two session tokens with the same value in every field.
SameFields(a, b) == \A k \in DOMAIN a \cup DOMAIN b : Get(a, k) = Get(b, k)

\* The call returned what a poll of the result key read.
ReturnedPolled(c) ==
    call[c].pc = "done" /\ call[c].polled /\ call[c].refreshes = 0

\* C25: a follower that polls within its wait timeout while the result key
\* holds the result a leader wrote returns that result, field for field the
\* one the leader's refresh produced, and does not run the backend refresh
\* itself (a poll that Redis does not answer is repeated).
C25_FollowerReusesLeaderResult ==
    /\ [][\A c \in Callers :
            (/\ call[c].pc = "poll" /\ call'[c] # call[c]
             /\ call[c].waited * POLL_INTERVAL_MS < WAIT_TIMEOUT_MS
             /\ cached # NoValue)
            => \/ /\ call'[c].pc = "done" /\ call'[c].ret = cached
                  /\ call'[c].refreshes = 0 /\ backendCalls' = backendCalls
               \/ redis # "up" /\ call'[c].pc = "poll"]_vars
    /\ [](\A c \in Callers :
            ReturnedPolled(c) =>
                \E d \in Callers \ {c} :
                    /\ call[d].pc \in {"unlock", "done"} /\ call[d].refreshes = 1
                    /\ SameFields(call[c].ret, call[d].attempt))

\* A follower has returned the tokens of the only refresh that ran, the
\* leader's, after at least one poll that found nothing.
C25_Witness ==
    \E c, d \in Callers :
        /\ c # d
        /\ ReturnedPolled(c) /\ call[c].waited > 0
        /\ Get(call[c].ret, "accessToken") = AccessNames[d]
        /\ SameFields(call[c].ret, call[d].attempt)
        /\ backendCalls = 1

\* The step writes the result key: caller c takes the step that follows its
\* refresh as leader.
Publishes(c) ==
    /\ call[c].pc = "publish" /\ call'[c].pc = "unlock"
    /\ cached' = JSONStringify(call[c].attempt)

\* C26 (as claimed): the result key is written only by the caller that holds
\* the lock of the key, at most once per acquisition of the lock; a follower
\* never writes it.
C26_WrittenByLockHolder ==
    [][cached' \notin {cached, NoValue}
         => \E c \in Callers : Publishes(c) /\ lockVal = c]_vars

\* C26 (amended): the result key is written only by a caller that acquired
\* the lock of the key (a leader), with the result of its own refresh and at
\* most once per acquisition; a caller that polled or fell back to a refresh
\* of its own never writes it.  While Redis answers every command the writer
\* still holds the lock when it writes.
C26_WrittenByLeaderOnce ==
    /\ [][cached' \notin {cached, NoValue}
            => \E c \in Callers :
                  /\ Publishes(c)
                  /\ call[c].lockTried /\ ~call[c].polled /\ call[c].refreshes = 1
                  /\ redis = "up" => lockVal = c]_vars
    /\ [][\A c \in Callers :
            /\ (call'[c].pc = "leader" /\ call[c].pc # "leader")
                   => (call[c].pc = "lock" /\ lockVal = 0 /\ lockVal' = c)
            /\ call'[c].pc = "publish" => call[c].pc \in {"leader", "publish"}
            /\ call[c].pc \in {"unlock", "done"} => call'[c].pc \in {"unlock", "done"}]_vars

\* A leader has written its result while holding the lock, and a follower
\* that timed out has run a refresh of its own without writing anything: the
\* key still holds the leader's result.
C26_Witness ==
    \E c, d \in Callers :
        /\ c # d
        /\ call[c].pc \in {"unlock", "done"} /\ ~call[c].polled /\ call[c].refreshes = 1
        /\ cached = JSONStringify(call[c].attempt)
        /\ call[d].pc = "done" /\ call[d].polled /\ call[d].refreshes = 1
        /\ call[d].attempt # call[c].attempt

\* C27: while the leader's backend refresh is executing and Redis answers,
\* the leader renews the lease every half lease duration: the lock key does
\* not expire and no second caller acquires the lock before the refresh has
\* finished; once the leader has finished it renews no more.
C27_LeaseKeptWhileRefreshing ==
    /\ [](redis = "up" /\ output.leader = "refresh"
            => /\ output.holder = 1 /\ output.leaseLeft > 0
               /\ output.second # "leader"
               /\ output.renewals >= output.clock \div KeepAliveEveryMs - 1)
    /\ [][output.leader = "finished" => output'.renewals = output.renewals]_vars
    /\ [](output.leader = "finished" => ~output.interval)

\* The leader's refresh has outlasted the lease it acquired: the lease was
\* renewed twice, the leader still holds the lock and the second caller was
\* refused it.
C27_Witness ==
    /\ redis = "up"
    /\ output.leader = "refresh"
    /\ output.clock > LOCK_TTL_MS
    /\ output.renewals >= 2
    /\ output.holder = 1
    /\ output.second = "poll"

\* C28: once the session token carries a refresh error with status 401 or
\* 403, every later jwt callback returns the token as it came and does not
\* call the refresh (no Redis, no backend), until a callback with a new
\* sign-in replaces the tokens and clears the error.
C28_HardRevokeSticks ==
    [][(output = <<>> /\ output' # <<>>)
         => /\ (input.user = <<>> /\ input.token.refreshErrorStatus \in {<<401>>, <<403>>})
                   => /\ output'[1].token = input.token
                      /\ ~output'[1].called
            /\ input.user # <<>>
                   => /\ output'[1].token.refreshErrorStatus = <<>>
                      /\ output'[1].token.error = Undefined
                      /\ output'[1].token.accessTokenExpires
                             = input.user[1].accessTokenExpires]_vars

\* A refresh of this session was answered 403; a later callback has returned
\* the token untouched, without a refresh.
C28_Witness ==
    /\ output # <<>>
    /\ input.user = <<>>
    /\ input.token.refreshErrorStatus = <<403>>
    /\ input.token.error = "RefreshAccessTokenError"
    /\ input.token.accessTokenExpires = <<0>>
    /\ ~output[1].called
    /\ output[1].token = input.token

\* C29: a refresh the backend answers with 401 or 403 returns the token with
\* the access token cleared, the expiry 0 and the error RefreshAccessTokenError;
\* every other failure (another non-2xx status, a 2xx without accessToken, a
\* network error or timeout) returns the token with accessToken,
\* accessTokenExpires and refreshToken as they were and only error and
\* refreshError set.
C29_RefreshFailureTokens ==
    output # <<>> =>
        LET token == input.token
            st == input.ans.status
            failed == ~(st = "200" /\ input.ans.access)
        IN  /\ st \in {"401", "403"}
                => /\ Get(output[1], "accessToken") = Undefined
                   /\ Get(output[1], "accessTokenExpires") = "0"
                   /\ Get(output[1], "error") = "RefreshAccessTokenError"
            /\ (failed /\ st \notin {"401", "403"})
                => /\ \A k \in (DOMAIN token \cup DOMAIN output[1]) \ {"error", "refreshError"} :
                          Get(output[1], k) = Get(token, k)
                   /\ Get(output[1], "error") = "RefreshAccessTokenError"
                   /\ Get(output[1], "refreshError") = IF st = "200" THEN "200" ELSE st

\* A 403 answered the refresh of a token that held a valid access token: the
\* access token is gone, the refresh token is still there.
C29_Witness ==
    /\ output # <<>>
    /\ input.ans.status = "403"
    /\ Get(input.token, "accessToken") = "a0"
    /\ Get(input.token, "accessTokenExpires") = "fresh"
    /\ Get(input.token, "error") = Undefined
    /\ Get(output[1], "accessToken") = Undefined
    /\ Get(output[1], "accessTokenExpires") = "0"
    /\ Get(output[1], "error") = "RefreshAccessTokenError"
    /\ Get(output[1], "refreshToken") = Get(input.token, "refreshToken")

\* The session holds neither a key refreshToken nor the token's refresh
\* token as a value, at the top or in its user object.
HidesRefreshToken(sess, token) ==
    /\ "refreshToken" \notin DOMAIN sess \cup DOMAIN sess.user
    /\ token.refreshToken # Undefined
          => /\ \A k \in DOMAIN sess \ {"user"} : sess[k] # token.refreshToken
             /\ \A k \in DOMAIN sess.user : sess.user[k] # token.refreshToken

\* C30: the session object the session callback builds does not contain the
\* refresh token, and two session tokens that differ only in refreshToken
\* give the same session object.
C30_SessionHidesRefreshToken ==
    output # <<>> =>
        /\ HidesRefreshToken(output[1], input.token)
        /\ HidesRefreshToken(output[2], input.other)
        /\ (\A k \in DOMAIN input.token \ {"refreshToken"} : input.token[k] = input.other[k])
              => output[1] = output[2]

\* Two tokens with different refresh tokens and everything else alike, the
\* profile of the login included, gave one session with an access token.
C30_Witness ==
    /\ output # <<>>
    /\ input.token.refreshToken = "r1"
    /\ input.other.refreshToken = "r2"
    /\ \A k \in DOMAIN input.token \ {"refreshToken"} : input.token[k] = input.other[k]
    /\ input.token.user = LoginProfile
    /\ output[1].accessToken = "a1"
    /\ output[1] = output[2]

\* C31: a refresh that arrives after a login was answered 200 and presents
\* the refresh token that was the stored pointer when that login loaded the
\* principal is answered 403.
C31_OldTokenRejectedAfterLogin ==
    \A l \in DOMAIN req, r \in DOMAIN req :
        (/\ req[l].op = "login" /\ l \in seen[r].after
         /\ req[r].op = "refresh" /\ req[r].pc = "done"
         /\ seen[l].atLoad # Null
         /\ req[r].token = seen[l].atLoad)
            => res[r].status = 403

\* A logout of the principal has been answered 200 and no login of the
\* principal has been answered 200 since.
LoggedOut(u) ==
    \E q \in DOMAIN req :
        /\ req[q].op = "logout" /\ req[q].uid = u /\ res[q].status = 200
        /\ \A l \in LoggedIn : req[l].uid = u => l \in seen[q].after

\* C32: from the answer of a logout until the next successful login the
\* principal's stored refresh-token pointer is empty, whatever refresh
\* requests were in flight at the logout.
C32_PointerEmptyAfterLogout ==
    \A u \in Users : LoggedOut(u) => userRefreshToken[u] = Null

\* C33: between the answer of a logout and the next successful login no
\* refresh request of the principal is answered 200, whatever token it
\* presents, and no 200 of a refresh carries an empty refresh token.
C33_NoRefreshAfterLogout ==
    [][\A r \in DOMAIN req :
          /\ (/\ req[r].op = "refresh" /\ req[r].pc # "done" /\ req'[r].pc = "done"
              /\ LoggedOut(req[r].uid))
                 => res'[r].status # 200
          /\ (req'[r].op = "refresh" /\ res'[r].status = 200)
                 => res'[r].refreshToken # Null]_vars

\* C34: the value of the result key is always the token of a successful
\* refresh (no error field), and a call that returns what it read from the
\* result key, running no refresh of its own, never returns a token with
\* RefreshAccessTokenError.
C34_CacheHoldsOnlySuccess ==
    /\ cached # NoValue => Get(cached, "error") = Undefined
    /\ \A c \in Callers :
          (call[c].pc = "done" /\ call[c].refreshes = 0 /\ call[c].ret # NoValue)
              => Get(call[c].ret, "error") = Undefined

\* C35: while the grace window of a rotation runs, the token the rotation
\* replaced is the stored pointer or has a ledger record; and a refresh
\* request answered with an error has not written the pointer.
C35_RotationAndRecordTogether ==
    \A r \in DOMAIN req :
        req[r].op = "refresh" =>
            /\ (/\ seen[r].wrote
                /\ now < req[r].refreshToken.iat + GRACE_SECONDS
                /\ userRefreshToken[req[r].uid] # req[r].token)
                   => \E rec \in usedTokens : rec.token = req[r].token
            /\ (req[r].pc = "done" /\ res[r].status # 200) => ~seen[r].wrote

\* C36: a refresh answered 200 on the happy path has minted a refresh token
\* different from the token it presented, also when it runs in the second
\* in which the presented token was minted.
C36_RotationMintsNewToken ==
    \A r \in DOMAIN req :
        (req[r].op = "refresh" /\ req[r].pc = "done" /\ seen[r].path = "happy")
            => /\ res[r].refreshToken # req[r].token
               /\ seen[r].wrote

\* C37: the access token signed for a principal whose active subscription
\* or trial is past its end date carries the plan claim 'free', and the
\* principal has been moved off the expired plan before the signing, whether
\* or not a 'free' Plan document exists.
C37_ExpiredPlanNotInToken ==
    (Len(output) = 2 /\ SubscriptionExpired(input.user, input.dateNow))
        => /\ output[2] = "free"
           /\ output[1].planId # input.user.planId \/ input.user.planId.slug \in {"", "free"}

\* Every operation the process has started has settled.
AllSettled == \A d \in Callers : awaits[d] = d => d \in settled

\* C38: the entry of the in-flight map is always an operation whose promise
\* has not settled (an operation that settled, by a result or by a
\* rejection, has no entry), and a call that arrives when every operation has
\* settled starts an operation of its own.
C38_MapHoldsOnlyInFlight ==
    /\ [](/\ inflight # 0 => inflight \in InFlight
          /\ \A c \in settled : inflight # c)
    /\ [][\A c \in Callers :
             (call[c].pc = "idle" /\ call'[c].pc # "idle" /\ AllSettled)
                 => /\ awaits'[c] = c
                    /\ inflight' = c]_vars

\* The first operation was rejected (getRedis threw) and has settled; the
\* second call has started an operation of its own.
C38_Witness ==
    /\ 1 \in settled
    /\ call[1].pc = "rejected"
    /\ awaits[2] = 2
    /\ inflight = 2
    /\ call[2].pc # "idle"

\* The request has made a step that left it waiting for the principal, on
\* the way to the ledger lookup, or answered with a refusal.
RefusalStep(r) ==
    /\ r \in DOMAIN req'
    /\ req'[r].op = "refresh"
    /\ r \in DOMAIN req => req[r] # req'[r]
    /\ \/ req'[r].pc \in {"findUser", "grace"}
       \/ req'[r].pc = "done" /\ res'[r].status # 200

\* C39: a refresh request that is refused (no token, expired, bad signature,
\* unknown principal, stale token without ledger record) has written neither
\* the stored pointer nor the ledger: none of its steps changes them, and it
\* has never been on the path that writes.
C39_RejectionWritesNothing ==
    /\ [](\A r \in DOMAIN req :
             (req[r].op = "refresh" /\ req[r].pc = "done" /\ res[r].status # 200)
                 => ~seen[r].wrote /\ seen[r].path # "happy")
    /\ [][\A r \in Reqs : RefusalStep(r) => UNCHANGED <<userRefreshToken, usedTokens>>]_vars

\* A stale token without ledger record was refused; the pointer is the one
\* the request found at its arrival and the ledger is empty as it was.
C39_Witness ==
    \E r \in DOMAIN req :
        /\ req[r].op = "refresh" /\ req[r].pc = "done"
        /\ res[r].status = 403
        /\ seen[r].verify = "ok" /\ seen[r].path = "failure"
        /\ userRefreshToken[req[r].uid] = seen[r].atArrival
        /\ userRefreshToken[req[r].uid] # Null
        /\ usedTokens = {}

\* C40: a renewal by the first leader's keep-alive changes the time to live
\* of the lock key only while the key holds the first leader's own lock id:
\* it never extends the lease of a second leader that acquired the lock
\* after the first leader's lease ran out.
C40_RenewsOnlyOwnLock ==
    [][(output'.renewals > output.renewals /\ output'.leaseLeft # output.leaseLeft)
          => output.holder = 1]_vars
====
